---------------------------- MODULE Spec2Model ----------------------------
(***************************************************************************)
(* A model of the book-scanner backend: the extraction-response parser and *)
(* validator of BookSpineDetector, the detect_books pipeline, the genre    *)
(* categorizer of BookCategorizer, the merge and the rate limiter of       *)
(* BookMetadataService, the preference filter of the analyze API and the   *)
(* curated-catalog recommenders of the recommend API.                      *)
(*                                                                         *)
(* Python strings are modelled as sequences of one-character strings, so   *)
(* that strip, lower, replace, split and the substring test `in` are       *)
(* computed character by character, as the interpreter computes them.      *)
(***************************************************************************)
EXTENDS Integers, Sequences, FiniteSets, TLC

VARIABLES
    response,        \* analyze_image_with_vision: the vision call's outcome
    vision_ret,      \* analyze_image_with_vision: what the caller gets back
    map_response,    \* _validate_and_map_genre: the classifier's text
    mapped_genre,    \* _validate_and_map_genre: its result
    remapped_genre,  \* _validate_and_map_genre applied to that result
    map_pc,          \* "call", "mapped" or "remapped"
    fb_title,        \* _fallback_categorization: the title
    fb_author,       \* _fallback_categorization: the author
    fb_genre,        \* _fallback_categorization: its result
    fb_pc,           \* "call" or "done"
    boxes,           \* detect_books: the detector's boxes for the image
    categorizer,     \* detect_books: "none", "no_client" or "ready"
    pc,              \* detect_books: "detect", "categorize" or "done"
    box_i,           \* detect_books: the box the loop is at
    detected_books,  \* detect_books: the list the loop appends to
    categorized_books, \* categorize_books: the list it appends to
    remote_log,      \* categorize_books: the outcome of each book's request
    vision_calls,    \* the number of extraction calls so far
    ret_books,       \* what detect_books returned
    md_title,        \* get_book_metadata: the title asked for
    md_author,       \* get_book_metadata: the author asked for
    google_response, \* search_google_books: the outcome of its request
    openlib_response, \* search_open_library: the outcome of its request
    metadata_ret,    \* get_book_metadata: what the caller gets back
    now,             \* the clock time.time() reads, in milliseconds
    last_request_time, \* BookMetadataService.last_request_time
    rl_pc,           \* per caller: where it is in a lookup
    rl_service,      \* per caller: the service its lookup asks
    current_time,    \* per caller: _rate_limit's current_time
    time_since_last, \* per caller: _rate_limit's time_since_last
    wake_time,       \* per caller: when its time.sleep may return
    request_log,     \* the requests sent so far, each with its call time
    all_books,       \* analyze_books_with_preferences: the detected records
    selected_genres, \* analyze_books_with_preferences: request.selected_genres
    filtered_books,  \* analyze_books_with_preferences: the list it builds
    pref_pc,         \* analyze_books_with_preferences: "filter" or "done"
    rec_detected,    \* the recommenders' detected_books
    rec_preferred,   \* the recommenders' preferred_genres / selected_genres
    rec_max,         \* the recommenders' max_recommendations
    recommendations, \* what get_book_recommendations returned
    fallback_recommendations, \* what get_fallback_recommendations returned
    rec_done,        \* which of the two have returned
    generation,      \* get_openai_recommendations: the generator's outcome
    openai_recommendations, \* get_openai_recommendations: what it returned
    gen_pc,          \* get_openai_recommendations: "call" or "done"
    detector_ready,  \* analyze API: the module's detector is not None
    uploads,         \* static/uploads: per identifier, the image stored (0: none)
    analysis_files,  \* static/results: per identifier, {id}_analysis.json
    preferences_files, \* static/results: {id}_preferences_analysis.json
    annotated_files, \* static/results: the identifiers with {id}_annotated.jpg
    writes,          \* per result file, the requests that have written it
    next_uuid,       \* the next identifier uuid4 gives out
    request_count,   \* the requests answered so far
    last_answer      \* the answer to the last request

visionVars == <<response, vision_ret>>

mapVars == <<map_response, mapped_genre, remapped_genre, map_pc>>

fallbackVars == <<fb_title, fb_author, fb_genre, fb_pc>>

pipelineVars ==
    <<boxes, categorizer, pc, box_i, detected_books, categorized_books,
      remote_log, vision_calls, ret_books>>

detectVars == <<visionVars, mapVars, fallbackVars, pipelineVars>>

metaVars == <<md_title, md_author, google_response, openlib_response, metadata_ret>>

limitVars ==
    <<now, last_request_time, rl_pc, rl_service, current_time, time_since_last,
      wake_time, request_log>>

prefVars == <<all_books, selected_genres, filtered_books, pref_pc>>

recVars ==
    <<rec_detected, rec_preferred, rec_max, recommendations,
      fallback_recommendations, rec_done>>

genVars == <<generation, openai_recommendations, gen_pc>>

storeVars == <<detector_ready, uploads, analysis_files, preferences_files,
               annotated_files, writes, next_uuid, request_count, last_answer>>

apiVars == <<genVars, storeVars>>

serviceVars == <<metaVars, limitVars, prefVars, recVars, apiVars>>

vars == <<detectVars, serviceVars>>

---------------------------------------------------------------------------
(* Python str operations                                                   *)

Whitespace == {" ", "\t", "\n", "\r"}

UpperAlpha == <<"A", "B", "C", "D", "E", "F", "G", "H", "I", "J", "K", "L", "M", "N", "O", "P", "Q", "R", "S", "T", "U", "V", "W", "X", "Y", "Z">>

LowerAlpha == <<"a", "b", "c", "d", "e", "f", "g", "h", "i", "j", "k", "l", "m", "n", "o", "p", "q", "r", "s", "t", "u", "v", "w", "x", "y", "z">>

lower_char(c) ==
    IF \E i \in 1..Len(UpperAlpha) : UpperAlpha[i] = c
    THEN LowerAlpha[CHOOSE i \in 1..Len(UpperAlpha) : UpperAlpha[i] = c]
    ELSE c

RECURSIVE lower(_)
lower(s) ==
    IF s = <<>> THEN <<>> ELSE <<lower_char(Head(s))>> \o lower(Tail(s))

RECURSIVE lstrip_chars(_, _)
lstrip_chars(s, chars) ==
    IF s # <<>> /\ Head(s) \in chars THEN lstrip_chars(Tail(s), chars) ELSE s

RECURSIVE rstrip_chars(_, _)
rstrip_chars(s, chars) ==
    IF s # <<>> /\ s[Len(s)] \in chars
    THEN rstrip_chars(SubSeq(s, 1, Len(s) - 1), chars)
    ELSE s

\* str.strip(chars): every leading and trailing character of the set goes
strip_chars(s, chars) == rstrip_chars(lstrip_chars(s, chars), chars)

strip(s) == strip_chars(s, Whitespace)

startswith(s, prefix) ==
    Len(prefix) <= Len(s) /\ SubSeq(s, 1, Len(prefix)) = prefix

endswith(s, suffix) ==
    Len(suffix) <= Len(s) /\ SubSeq(s, Len(s) - Len(suffix) + 1, Len(s)) = suffix

\* the substring test `sub in s`
contains(sub, s) ==
    \E i \in 0..(Len(s) - Len(sub)) : SubSeq(s, i + 1, i + Len(sub)) = sub

\* s.replace(old, ''): every non-overlapping occurrence, left to right
RECURSIVE remove_all(_, _)
remove_all(s, old) ==
    IF Len(s) < Len(old) THEN s
    ELSE IF startswith(s, old)
         THEN remove_all(SubSeq(s, Len(old) + 1, Len(s)), old)
         ELSE <<Head(s)>> \o remove_all(Tail(s), old)

\* s.split(sep) for a one-character separator
RECURSIVE split(_, _)
split(s, sep) ==
    IF \E i \in 1..Len(s) : s[i] = sep
    THEN LET i == CHOOSE k \in 1..Len(s) :
                      s[k] = sep /\ \A j \in 1..(k - 1) : s[j] # sep
         IN  <<SubSeq(s, 1, i - 1)>> \o split(SubSeq(s, i + 1, Len(s)), sep)
    ELSE <<s>>

\* dict.get(key, '')
Get(d, key) == IF key \in DOMAIN d THEN d[key] ELSE <<>>

---------------------------------------------------------------------------
(* BookSpineDetector._validate_extraction                                  *)

NeedValidation == <<"N", "e", "e", "d", " ", "V", "a", "l", "i", "d", "a", "t", "i", "o", "n">>

high_risk_terms ==
    << <<"c", "a", "n", "n", "o", "t", " ", "d", "e", "t", "e", "r", "m", "i", "n", "e">>, <<"u", "n", "c", "l", "e", "a", "r">>, <<"n", "o", "t", " ", "v", "i", "s", "i", "b", "l", "e">>, <<"m", "u", "l", "t", "i", "p", "l", "e", " ", "p", "o", "s", "s", "i", "b", "i", "l", "i", "t", "i", "e", "s">>,
       <<"c", "o", "m", "p", "l", "e", "t", "e", "l", "y", " ", "o", "b", "s", "c", "u", "r", "e", "d">>, <<"l", "o", "w", " ", "c", "o", "n", "f", "i", "d", "e", "n", "c", "e">>, <<"u", "n", "c", "e", "r", "t", "a", "i", "n">>, <<"a", "m", "b", "i", "g", "u", "o", "u", "s">> >>

placeholder_terms == << <<"u", "n", "k", "n", "o", "w", "n">>, <<"n", "/", "a">>, <<"n", "o", "t", " ", "a", "v", "a", "i", "l", "a", "b", "l", "e">>, <<"u", "n", "c", "l", "e", "a", "r">> >>

any_term_in(terms, s) == \E k \in 1..Len(terms) : contains(terms[k], s)

\* a validator that looks at the notes only
validate_notes_only(result) ==
    /\ ~contains(NeedValidation, result.uncertainty_notes)
    /\ ~any_term_in(high_risk_terms, lower(result.uncertainty_notes))

\* a validator that matches the marker in any letter case
validate_marker_any_case(result) ==
    IF contains(lower(NeedValidation), lower(result.uncertainty_notes)) THEN FALSE
    ELSE IF any_term_in(high_risk_terms, lower(result.uncertainty_notes)) THEN FALSE
    ELSE IF Len(result.reasoning) < 20 THEN FALSE
    ELSE IF strip(result.title) = <<>> THEN FALSE
    ELSE IF strip(result.genre) = <<>> THEN FALSE
    ELSE IF any_term_in(placeholder_terms, lower(result.title)) THEN FALSE
    ELSE TRUE

_validate_extraction(result) ==
    IF contains(NeedValidation, result.uncertainty_notes) THEN FALSE
    ELSE IF any_term_in(high_risk_terms, lower(result.uncertainty_notes)) THEN FALSE
    ELSE IF Len(result.reasoning) < 20 THEN FALSE
    ELSE IF strip(result.title) = <<>> THEN FALSE
    ELSE IF strip(result.genre) = <<>> THEN FALSE
    ELSE IF any_term_in(placeholder_terms, lower(result.title)) THEN FALSE
    ELSE TRUE

---------------------------------------------------------------------------
(* BookSpineDetector._parse_openai_response                                *)

new_book_info ==
    [ title |-> <<>>, author |-> <<>>, genre |-> <<>>,
      primary_genre |-> <<>>, secondary_genre |-> <<>>, tertiary_genre |-> <<>>,
      spine_appearance |-> <<>>, reasoning |-> <<>>, uncertainty_notes |-> <<>>,
      isValid |-> TRUE ]

\* genres[n-1] if len(genres) > n-1 else ''
genre_at(genres, n) == IF Len(genres) > n - 1 THEN genres[n] ELSE <<>>

\* genre_text.strip('[]')
strip_brackets(genre_text) == strip_chars(genre_text, {"[", "]"})

RECURSIVE strip_each(_)
strip_each(parts) ==
    IF parts = <<>> THEN <<>> ELSE <<strip(Head(parts))>> \o strip_each(Tail(parts))

\* the GENRE: branch that never sets the top-level genre
parse_genre_no_mirror(book_info, genre_text) ==
    IF startswith(genre_text, <<"[">>) /\ endswith(genre_text, <<"]">>)
    THEN LET genres == strip_each(split(strip_brackets(genre_text), ","))
         IN  [book_info EXCEPT !.primary_genre = genre_at(genres, 1),
                               !.secondary_genre = genre_at(genres, 2),
                               !.tertiary_genre = genre_at(genres, 3)]
    ELSE [book_info EXCEPT !.primary_genre = genre_text,
                           !.secondary_genre = <<>>,
                           !.tertiary_genre = <<>>]

parse_genre(book_info, genre_text) ==
    IF startswith(genre_text, <<"[">>) /\ endswith(genre_text, <<"]">>)
    THEN LET genres == strip_each(split(strip_brackets(genre_text), ","))
         IN  [book_info EXCEPT !.primary_genre = genre_at(genres, 1),
                               !.secondary_genre = genre_at(genres, 2),
                               !.tertiary_genre = genre_at(genres, 3),
                               !.genre = genre_at(genres, 1)]
    ELSE [book_info EXCEPT !.primary_genre = genre_text,
                           !.secondary_genre = <<>>,
                           !.tertiary_genre = <<>>,
                           !.genre = genre_text]

\* line.replace(prefix, '').strip()
field_value(line, prefix) == strip(remove_all(line, prefix))

parse_line(book_info, raw_line) ==
    LET line == strip(raw_line) IN
    IF startswith(line, <<"T", "I", "T", "L", "E", ":">>)
    THEN [book_info EXCEPT !.title = field_value(line, <<"T", "I", "T", "L", "E", ":">>)]
    ELSE IF startswith(line, <<"A", "U", "T", "H", "O", "R", ":">>)
    THEN [book_info EXCEPT !.author = field_value(line, <<"A", "U", "T", "H", "O", "R", ":">>)]
    ELSE IF startswith(line, <<"G", "E", "N", "R", "E", ":">>)
    THEN parse_genre(book_info, field_value(line, <<"G", "E", "N", "R", "E", ":">>))
    ELSE IF startswith(line, <<"S", "P", "I", "N", "E", "_", "A", "P", "P", "E", "A", "R", "A", "N", "C", "E", ":">>)
    THEN [book_info EXCEPT !.spine_appearance = field_value(line, <<"S", "P", "I", "N", "E", "_", "A", "P", "P", "E", "A", "R", "A", "N", "C", "E", ":">>)]
    ELSE IF startswith(line, <<"R", "E", "A", "S", "O", "N", "I", "N", "G", ":">>)
    THEN [book_info EXCEPT !.reasoning = field_value(line, <<"R", "E", "A", "S", "O", "N", "I", "N", "G", ":">>)]
    ELSE IF startswith(line, <<"U", "N", "C", "E", "R", "T", "A", "I", "N", "T", "Y", "_", "N", "O", "T", "E", "S", ":">>)
    THEN [book_info EXCEPT !.uncertainty_notes = field_value(line, <<"U", "N", "C", "E", "R", "T", "A", "I", "N", "T", "Y", "_", "N", "O", "T", "E", "S", ":">>)]
    ELSE book_info

RECURSIVE parse_lines(_, _)
parse_lines(book_info, lines) ==
    IF lines = <<>> THEN book_info
    ELSE parse_lines(parse_line(book_info, Head(lines)), Tail(lines))

\* str(e) of the AttributeError that None.split raises
NoneSplitError == <<"'", "N", "o", "n", "e", "T", "y", "p", "e", "'", " ", "o", "b", "j", "e", "c", "t", " ", "h", "a", "s", " ", "n", "o", " ", "a", "t", "t", "r", "i", "b", "u", "t", "e", " ", "'", "s", "p", "l", "i", "t", "'">>

\* response_text is [is_none |-> TRUE] for None, else [is_none |-> FALSE, text |-> s]
_parse_openai_response(response_text) ==
    LET book_info ==
            IF response_text.is_none
            THEN [new_book_info EXCEPT
                      !.uncertainty_notes = <<"P", "a", "r", "s", "i", "n", "g", " ", "e", "r", "r", "o", "r", ":", " ">> \o NoneSplitError,
                      !.isValid = FALSE]
            ELSE parse_lines(new_book_info, split(response_text.text, "\n"))
    IN  [book_info EXCEPT !.isValid = _validate_extraction(book_info)]

---------------------------------------------------------------------------
(* BookSpineDetector.analyze_image_with_vision                             *)

\* d[key] = v on a dict
Put(d, key, v) == [k \in DOMAIN d \cup {key} |-> IF k = key THEN v ELSE d[k]]

\* the three fallback dicts of analyze_image_with_vision
failure_record(rawText, reasoning) ==
    [ title |-> <<>>, author |-> <<>>, genre |-> <<>>,
      primary_genre |-> <<>>, secondary_genre |-> <<>>, tertiary_genre |-> <<>>,
      isValid |-> FALSE, rawText |-> rawText, reasoning |-> reasoning ]

Returned(value) == [raised |-> FALSE, value |-> value]

\* str(e) of the AttributeError for a choice with neither message nor text
NoTextError == <<"'", "C", "h", "o", "i", "c", "e", "'", " ", "o", "b", "j", "e", "c", "t", " ", "h", "a", "s", " ", "n", "o", " ", "a", "t", "t", "r", "i", "b", "u", "t", "e", " ", "'", "t", "e", "x", "t", "'">>

\* resp is the outcome of the steps inside the outer try:
\*   image_error         _process_cropped_image / image_to_base64 raised
\*   api_error           chat.completions.create raised
\*   no_choices          the response has no (or an empty) choices list
\*   no_message_no_text  choices[0] has neither .message nor .text
\*   message             choices[0].message.content (a str or None)
\*   legacy_text         choices[0].text
analyze_image_with_vision(resp) ==
    IF resp.kind = "image_error"
    THEN Returned(failure_record(<<"V", "i", "s", "i", "o", "n", " ", "A", "n", "a", "l", "y", "s", "i", "s", " ", "F", "a", "i", "l", "e", "d">>,
                                 <<"O", "p", "e", "n", "A", "I", " ", "V", "i", "s", "i", "o", "n", " ", "A", "P", "I", " ", "e", "r", "r", "o", "r", ":", " ">> \o resp.error))
    ELSE IF resp.kind = "api_error"
    THEN Returned(failure_record(<<"O", "p", "e", "n", "A", "I", " ", "A", "P", "I", " ", "E", "r", "r", "o", "r">>,
                                 <<"O", "p", "e", "n", "A", "I", " ", "A", "P", "I", " ", "c", "a", "l", "l", " ", "f", "a", "i", "l", "e", "d", ":", " ">> \o resp.error))
    ELSE IF resp.kind = "no_choices"
    THEN Returned(failure_record(<<"I", "n", "v", "a", "l", "i", "d", " ", "A", "P", "I", " ", "R", "e", "s", "p", "o", "n", "s", "e">>,
                                 <<"O", "p", "e", "n", "A", "I", " ", "A", "P", "I", " ", "r", "e", "t", "u", "r", "n", "e", "d", " ", "u", "n", "e", "x", "p", "e", "c", "t", "e", "d", " ", "r", "e", "s", "p", "o", "n", "s", "e", " ", "f", "o", "r", "m", "a", "t">>))
    ELSE IF resp.kind = "no_message_no_text"
    THEN Returned(failure_record(<<"V", "i", "s", "i", "o", "n", " ", "A", "n", "a", "l", "y", "s", "i", "s", " ", "F", "a", "i", "l", "e", "d">>,
                                 <<"O", "p", "e", "n", "A", "I", " ", "V", "i", "s", "i", "o", "n", " ", "A", "P", "I", " ", "e", "r", "r", "o", "r", ":", " ">> \o NoTextError))
    ELSE Returned(Put(_parse_openai_response(resp.content),
                      "rawText", <<"V", "i", "s", "i", "o", "n", " ", "A", "n", "a", "l", "y", "s", "i", "s">>))

---------------------------------------------------------------------------
(* BookCategorizer: the genre tables                                       *)

predefined_genres ==
    << <<"F", "i", "c", "t", "i", "o", "n">>, <<"N", "o", "n", "-", "F", "i", "c", "t", "i", "o", "n">>, <<"M", "y", "s", "t", "e", "r", "y">>, <<"S", "c", "i", "e", "n", "c", "e", " ", "F", "i", "c", "t", "i", "o", "n">>,
       <<"F", "a", "n", "t", "a", "s", "y">>, <<"R", "o", "m", "a", "n", "c", "e">>, <<"T", "h", "r", "i", "l", "l", "e", "r">>, <<"B", "i", "o", "g", "r", "a", "p", "h", "y">>, <<"H", "i", "s", "t", "o", "r", "y">>,
       <<"S", "e", "l", "f", "-", "H", "e", "l", "p">>, <<"B", "u", "s", "i", "n", "e", "s", "s">>, <<"T", "e", "c", "h", "n", "o", "l", "o", "g", "y">>, <<"A", "r", "t">>, <<"P", "o", "e", "t", "r", "y">>, <<"D", "r", "a", "m", "a">> >>

\* the dict genre_mapping, in insertion order (the order items() iterates it)
genre_mapping ==
    << <<<<"l", "i", "t", "e", "r", "a", "r", "y", " ", "f", "i", "c", "t", "i", "o", "n">>, <<"F", "i", "c", "t", "i", "o", "n">>>>,
       <<<<"c", "o", "n", "t", "e", "m", "p", "o", "r", "a", "r", "y", " ", "f", "i", "c", "t", "i", "o", "n">>, <<"F", "i", "c", "t", "i", "o", "n">>>>,
       <<<<"c", "l", "a", "s", "s", "i", "c", " ", "f", "i", "c", "t", "i", "o", "n">>, <<"F", "i", "c", "t", "i", "o", "n">>>>,
       <<<<"g", "e", "n", "e", "r", "a", "l", " ", "f", "i", "c", "t", "i", "o", "n">>, <<"F", "i", "c", "t", "i", "o", "n">>>>,
       <<<<"f", "i", "c", "t", "i", "o", "n">>, <<"F", "i", "c", "t", "i", "o", "n">>>>,
       <<<<"m", "y", "s", "t", "e", "r", "y">>, <<"M", "y", "s", "t", "e", "r", "y">>>>,
       <<<<"d", "e", "t", "e", "c", "t", "i", "v", "e">>, <<"M", "y", "s", "t", "e", "r", "y">>>>,
       <<<<"c", "r", "i", "m", "e">>, <<"M", "y", "s", "t", "e", "r", "y">>>>,
       <<<<"t", "h", "r", "i", "l", "l", "e", "r">>, <<"T", "h", "r", "i", "l", "l", "e", "r">>>>,
       <<<<"s", "u", "s", "p", "e", "n", "s", "e">>, <<"T", "h", "r", "i", "l", "l", "e", "r">>>>,
       <<<<"p", "s", "y", "c", "h", "o", "l", "o", "g", "i", "c", "a", "l", " ", "t", "h", "r", "i", "l", "l", "e", "r">>, <<"T", "h", "r", "i", "l", "l", "e", "r">>>>,
       <<<<"s", "c", "i", "e", "n", "c", "e", " ", "f", "i", "c", "t", "i", "o", "n">>, <<"S", "c", "i", "e", "n", "c", "e", " ", "F", "i", "c", "t", "i", "o", "n">>>>,
       <<<<"s", "c", "i", "-", "f", "i">>, <<"S", "c", "i", "e", "n", "c", "e", " ", "F", "i", "c", "t", "i", "o", "n">>>>,
       <<<<"s", "p", "e", "c", "u", "l", "a", "t", "i", "v", "e", " ", "f", "i", "c", "t", "i", "o", "n">>, <<"S", "c", "i", "e", "n", "c", "e", " ", "F", "i", "c", "t", "i", "o", "n">>>>,
       <<<<"f", "a", "n", "t", "a", "s", "y">>, <<"F", "a", "n", "t", "a", "s", "y">>>>,
       <<<<"u", "r", "b", "a", "n", " ", "f", "a", "n", "t", "a", "s", "y">>, <<"F", "a", "n", "t", "a", "s", "y">>>>,
       <<<<"e", "p", "i", "c", " ", "f", "a", "n", "t", "a", "s", "y">>, <<"F", "a", "n", "t", "a", "s", "y">>>>,
       <<<<"h", "i", "g", "h", " ", "f", "a", "n", "t", "a", "s", "y">>, <<"F", "a", "n", "t", "a", "s", "y">>>>,
       <<<<"r", "o", "m", "a", "n", "c", "e">>, <<"R", "o", "m", "a", "n", "c", "e">>>>,
       <<<<"r", "o", "m", "a", "n", "t", "i", "c", " ", "f", "i", "c", "t", "i", "o", "n">>, <<"R", "o", "m", "a", "n", "c", "e">>>>,
       <<<<"c", "o", "n", "t", "e", "m", "p", "o", "r", "a", "r", "y", " ", "r", "o", "m", "a", "n", "c", "e">>, <<"R", "o", "m", "a", "n", "c", "e">>>>,
       <<<<"h", "i", "s", "t", "o", "r", "i", "c", "a", "l", " ", "r", "o", "m", "a", "n", "c", "e">>, <<"R", "o", "m", "a", "n", "c", "e">>>>,
       <<<<"n", "o", "n", "-", "f", "i", "c", "t", "i", "o", "n">>, <<"N", "o", "n", "-", "F", "i", "c", "t", "i", "o", "n">>>>,
       <<<<"n", "o", "n", "f", "i", "c", "t", "i", "o", "n">>, <<"N", "o", "n", "-", "F", "i", "c", "t", "i", "o", "n">>>>,
       <<<<"b", "i", "o", "g", "r", "a", "p", "h", "y">>, <<"B", "i", "o", "g", "r", "a", "p", "h", "y">>>>,
       <<<<"a", "u", "t", "o", "b", "i", "o", "g", "r", "a", "p", "h", "y">>, <<"B", "i", "o", "g", "r", "a", "p", "h", "y">>>>,
       <<<<"m", "e", "m", "o", "i", "r">>, <<"B", "i", "o", "g", "r", "a", "p", "h", "y">>>>,
       <<<<"h", "i", "s", "t", "o", "r", "y">>, <<"H", "i", "s", "t", "o", "r", "y">>>>,
       <<<<"h", "i", "s", "t", "o", "r", "i", "c", "a", "l">>, <<"H", "i", "s", "t", "o", "r", "y">>>>,
       <<<<"s", "e", "l", "f", "-", "h", "e", "l", "p">>, <<"S", "e", "l", "f", "-", "H", "e", "l", "p">>>>,
       <<<<"s", "e", "l", "f", " ", "h", "e", "l", "p">>, <<"S", "e", "l", "f", "-", "H", "e", "l", "p">>>>,
       <<<<"p", "e", "r", "s", "o", "n", "a", "l", " ", "d", "e", "v", "e", "l", "o", "p", "m", "e", "n", "t">>, <<"S", "e", "l", "f", "-", "H", "e", "l", "p">>>>,
       <<<<"b", "u", "s", "i", "n", "e", "s", "s">>, <<"B", "u", "s", "i", "n", "e", "s", "s">>>>,
       <<<<"e", "n", "t", "r", "e", "p", "r", "e", "n", "e", "u", "r", "s", "h", "i", "p">>, <<"B", "u", "s", "i", "n", "e", "s", "s">>>>,
       <<<<"m", "a", "n", "a", "g", "e", "m", "e", "n", "t">>, <<"B", "u", "s", "i", "n", "e", "s", "s">>>>,
       <<<<"t", "e", "c", "h", "n", "o", "l", "o", "g", "y">>, <<"T", "e", "c", "h", "n", "o", "l", "o", "g", "y">>>>,
       <<<<"p", "r", "o", "g", "r", "a", "m", "m", "i", "n", "g">>, <<"T", "e", "c", "h", "n", "o", "l", "o", "g", "y">>>>,
       <<<<"c", "o", "m", "p", "u", "t", "e", "r", " ", "s", "c", "i", "e", "n", "c", "e">>, <<"T", "e", "c", "h", "n", "o", "l", "o", "g", "y">>>>,
       <<<<"a", "r", "t">>, <<"A", "r", "t">>>>,
       <<<<"a", "r", "t", " ", "h", "i", "s", "t", "o", "r", "y">>, <<"A", "r", "t">>>>,
       <<<<"d", "e", "s", "i", "g", "n">>, <<"A", "r", "t">>>>,
       <<<<"p", "o", "e", "t", "r", "y">>, <<"P", "o", "e", "t", "r", "y">>>>,
       <<<<"p", "o", "e", "m", "s">>, <<"P", "o", "e", "t", "r", "y">>>>,
       <<<<"v", "e", "r", "s", "e">>, <<"P", "o", "e", "t", "r", "y">>>>,
       <<<<"d", "r", "a", "m", "a">>, <<"D", "r", "a", "m", "a">>>>,
       <<<<"p", "l", "a", "y", "s">>, <<"D", "r", "a", "m", "a">>>>,
       <<<<"t", "h", "e", "a", "t", "e", "r">>, <<"D", "r", "a", "m", "a">>>>,
       <<<<"t", "h", "e", "a", "t", "r", "e">>, <<"D", "r", "a", "m", "a">>>> >>

\* the least element of a non-empty set of positions: the first hit of a loop
first_of(positions) == CHOOSE k \in positions : \A j \in positions : k <= j

---------------------------------------------------------------------------
(* BookCategorizer._validate_and_map_genre                                 *)

\* a mapping that hands an unmapped response back as the genre
map_genre_unmapped_raw(genre_response) ==
    LET genre_clean == strip(lower(genre_response))
        IsName(k) == lower(predefined_genres[k]) = genre_clean
        HasKey(k) == contains(genre_mapping[k][1], genre_clean)
    IN  IF \E k \in 1..Len(predefined_genres) : IsName(k)
        THEN predefined_genres[first_of({k \in 1..Len(predefined_genres) : IsName(k)})]
        ELSE IF \E k \in 1..Len(genre_mapping) : HasKey(k)
        THEN genre_mapping[first_of({k \in 1..Len(genre_mapping) : HasKey(k)})][2]
        ELSE genre_response

\* a mapping that compares with the predefined names case-sensitively
map_genre_case_sensitive(genre_response) ==
    LET genre_clean == strip(lower(genre_response))
        IsName(k) == predefined_genres[k] = genre_clean
        HasKey(k) == contains(genre_mapping[k][1], genre_clean)
    IN  IF \E k \in 1..Len(predefined_genres) : IsName(k)
        THEN predefined_genres[first_of({k \in 1..Len(predefined_genres) : IsName(k)})]
        ELSE IF \E k \in 1..Len(genre_mapping) : HasKey(k)
        THEN genre_mapping[first_of({k \in 1..Len(genre_mapping) : HasKey(k)})][2]
        ELSE <<"F", "i", "c", "t", "i", "o", "n">>

_validate_and_map_genre(genre_response) ==
    LET genre_clean == strip(lower(genre_response))
        IsName(k) == lower(predefined_genres[k]) = genre_clean
        HasKey(k) == contains(genre_mapping[k][1], genre_clean)
    IN  IF \E k \in 1..Len(predefined_genres) : IsName(k)
        THEN predefined_genres[first_of({k \in 1..Len(predefined_genres) : IsName(k)})]
        ELSE IF \E k \in 1..Len(genre_mapping) : HasKey(k)
        THEN genre_mapping[first_of({k \in 1..Len(genre_mapping) : HasKey(k)})][2]
        ELSE <<"F", "i", "c", "t", "i", "o", "n">>

---------------------------------------------------------------------------
(* BookCategorizer._fallback_categorization                                *)

any_word_in(words, s) == \E w \in words : contains(w, s)

\* the keyword scan with the Mystery and Romance tests in the other order
fallback_romance_first(title, author) ==
    LET title_lower == lower(title) IN
    IF any_word_in({<<"l", "o", "v", "e">>, <<"r", "o", "m", "a", "n", "c", "e">>, <<"h", "e", "a", "r", "t">>}, title_lower)
    THEN <<"R", "o", "m", "a", "n", "c", "e">>
    ELSE IF any_word_in({<<"m", "y", "s", "t", "e", "r", "y">>, <<"m", "u", "r", "d", "e", "r">>, <<"d", "e", "t", "e", "c", "t", "i", "v", "e">>, <<"c", "r", "i", "m", "e">>}, title_lower)
    THEN <<"M", "y", "s", "t", "e", "r", "y">>
    ELSE IF any_word_in({<<"s", "p", "a", "c", "e">>, <<"f", "u", "t", "u", "r", "e">>, <<"r", "o", "b", "o", "t">>, <<"a", "l", "i", "e", "n">>, <<"s", "c", "i", "-", "f", "i">>}, title_lower)
    THEN <<"S", "c", "i", "e", "n", "c", "e", " ", "F", "i", "c", "t", "i", "o", "n">>
    ELSE IF any_word_in({<<"m", "a", "g", "i", "c">>, <<"d", "r", "a", "g", "o", "n">>, <<"f", "a", "n", "t", "a", "s", "y">>, <<"w", "i", "z", "a", "r", "d">>}, title_lower)
    THEN <<"F", "a", "n", "t", "a", "s", "y">>
    ELSE IF any_word_in({<<"h", "i", "s", "t", "o", "r", "y">>, <<"h", "i", "s", "t", "o", "r", "i", "c", "a", "l">>, <<"w", "a", "r">>, <<"b", "a", "t", "t", "l", "e">>}, title_lower)
    THEN <<"H", "i", "s", "t", "o", "r", "y">>
    ELSE IF any_word_in({<<"b", "u", "s", "i", "n", "e", "s", "s">>, <<"m", "a", "n", "a", "g", "e", "m", "e", "n", "t">>, <<"e", "n", "t", "r", "e", "p", "r", "e", "n", "e", "u", "r">>}, title_lower)
    THEN <<"B", "u", "s", "i", "n", "e", "s", "s">>
    ELSE IF any_word_in({<<"p", "r", "o", "g", "r", "a", "m", "m", "i", "n", "g">>, <<"c", "o", "d", "e">>, <<"s", "o", "f", "t", "w", "a", "r", "e">>, <<"t", "e", "c", "h">>}, title_lower)
    THEN <<"T", "e", "c", "h", "n", "o", "l", "o", "g", "y">>
    ELSE IF any_word_in({<<"s", "e", "l", "f", "-", "h", "e", "l", "p">>, <<"s", "u", "c", "c", "e", "s", "s">>, <<"m", "o", "t", "i", "v", "a", "t", "i", "o", "n">>, <<"h", "a", "b", "i", "t", "s">>}, title_lower)
    THEN <<"S", "e", "l", "f", "-", "H", "e", "l", "p">>
    ELSE IF any_word_in({<<"b", "i", "o", "g", "r", "a", "p", "h", "y">>, <<"l", "i", "f", "e", " ", "o", "f">>, <<"m", "e", "m", "o", "i", "r">>}, title_lower)
    THEN <<"B", "i", "o", "g", "r", "a", "p", "h", "y">>
    ELSE IF any_word_in({<<"p", "o", "e", "t", "r", "y">>, <<"p", "o", "e", "m", "s">>, <<"v", "e", "r", "s", "e">>}, title_lower)
    THEN <<"P", "o", "e", "t", "r", "y">>
    ELSE IF any_word_in({<<"a", "r", "t">>, <<"p", "a", "i", "n", "t", "i", "n", "g">>, <<"d", "e", "s", "i", "g", "n">>}, title_lower)
    THEN <<"A", "r", "t">>
    ELSE IF any_word_in({<<"d", "r", "a", "m", "a">>, <<"p", "l", "a", "y">>, <<"t", "h", "e", "a", "t", "e", "r">>}, title_lower)
    THEN <<"D", "r", "a", "m", "a">>
    ELSE <<"F", "i", "c", "t", "i", "o", "n">>

_fallback_categorization(title, author) ==
    LET title_lower == lower(title) IN
    IF any_word_in({<<"m", "y", "s", "t", "e", "r", "y">>, <<"m", "u", "r", "d", "e", "r">>, <<"d", "e", "t", "e", "c", "t", "i", "v", "e">>, <<"c", "r", "i", "m", "e">>}, title_lower)
    THEN <<"M", "y", "s", "t", "e", "r", "y">>
    ELSE IF any_word_in({<<"l", "o", "v", "e">>, <<"r", "o", "m", "a", "n", "c", "e">>, <<"h", "e", "a", "r", "t">>}, title_lower)
    THEN <<"R", "o", "m", "a", "n", "c", "e">>
    ELSE IF any_word_in({<<"s", "p", "a", "c", "e">>, <<"f", "u", "t", "u", "r", "e">>, <<"r", "o", "b", "o", "t">>, <<"a", "l", "i", "e", "n">>, <<"s", "c", "i", "-", "f", "i">>}, title_lower)
    THEN <<"S", "c", "i", "e", "n", "c", "e", " ", "F", "i", "c", "t", "i", "o", "n">>
    ELSE IF any_word_in({<<"m", "a", "g", "i", "c">>, <<"d", "r", "a", "g", "o", "n">>, <<"f", "a", "n", "t", "a", "s", "y">>, <<"w", "i", "z", "a", "r", "d">>}, title_lower)
    THEN <<"F", "a", "n", "t", "a", "s", "y">>
    ELSE IF any_word_in({<<"h", "i", "s", "t", "o", "r", "y">>, <<"h", "i", "s", "t", "o", "r", "i", "c", "a", "l">>, <<"w", "a", "r">>, <<"b", "a", "t", "t", "l", "e">>}, title_lower)
    THEN <<"H", "i", "s", "t", "o", "r", "y">>
    ELSE IF any_word_in({<<"b", "u", "s", "i", "n", "e", "s", "s">>, <<"m", "a", "n", "a", "g", "e", "m", "e", "n", "t">>, <<"e", "n", "t", "r", "e", "p", "r", "e", "n", "e", "u", "r">>}, title_lower)
    THEN <<"B", "u", "s", "i", "n", "e", "s", "s">>
    ELSE IF any_word_in({<<"p", "r", "o", "g", "r", "a", "m", "m", "i", "n", "g">>, <<"c", "o", "d", "e">>, <<"s", "o", "f", "t", "w", "a", "r", "e">>, <<"t", "e", "c", "h">>}, title_lower)
    THEN <<"T", "e", "c", "h", "n", "o", "l", "o", "g", "y">>
    ELSE IF any_word_in({<<"s", "e", "l", "f", "-", "h", "e", "l", "p">>, <<"s", "u", "c", "c", "e", "s", "s">>, <<"m", "o", "t", "i", "v", "a", "t", "i", "o", "n">>, <<"h", "a", "b", "i", "t", "s">>}, title_lower)
    THEN <<"S", "e", "l", "f", "-", "H", "e", "l", "p">>
    ELSE IF any_word_in({<<"b", "i", "o", "g", "r", "a", "p", "h", "y">>, <<"l", "i", "f", "e", " ", "o", "f">>, <<"m", "e", "m", "o", "i", "r">>}, title_lower)
    THEN <<"B", "i", "o", "g", "r", "a", "p", "h", "y">>
    ELSE IF any_word_in({<<"p", "o", "e", "t", "r", "y">>, <<"p", "o", "e", "m", "s">>, <<"v", "e", "r", "s", "e">>}, title_lower)
    THEN <<"P", "o", "e", "t", "r", "y">>
    ELSE IF any_word_in({<<"a", "r", "t">>, <<"p", "a", "i", "n", "t", "i", "n", "g">>, <<"d", "e", "s", "i", "g", "n">>}, title_lower)
    THEN <<"A", "r", "t">>
    ELSE IF any_word_in({<<"d", "r", "a", "m", "a">>, <<"p", "l", "a", "y">>, <<"t", "h", "e", "a", "t", "e", "r">>}, title_lower)
    THEN <<"D", "r", "a", "m", "a">>
    ELSE <<"F", "i", "c", "t", "i", "o", "n">>

---------------------------------------------------------------------------
(* BookCategorizer._categorize_single_book                                 *)

\* remote is the outcome of the classification request:
\*   api_error    chat.completions.create raised
\*   no_choices   the response has no (or an empty) choices list
\*   message      choices[0].message.content (a str or None)
\*   legacy_text  choices[0].text
\* A None content makes .strip() raise inside the try, like an API error.
_categorize_single_book(book, remote) ==
    LET title == Get(book, "title")
        author == Get(book, "author")
    IN  IF title = <<>> THEN Returned(<<"F", "i", "c", "t", "i", "o", "n">>)
        ELSE IF remote.kind = "api_error"
        THEN Returned(_fallback_categorization(title, author))
        ELSE IF remote.kind = "no_choices" THEN Returned(<<"F", "i", "c", "t", "i", "o", "n">>)
        ELSE IF remote.content.is_none
        THEN Returned(_fallback_categorization(title, author))
        ELSE Returned(_validate_and_map_genre(remote.content.text))

---------------------------------------------------------------------------
(* BookCategorizer.categorize_books                                        *)

\* the body of the loop: a copy of the book with its genre fields
categorize_one(book, remote) ==
    LET r == _categorize_single_book(book, remote) IN
    IF r.raised
    THEN Put(Put(Put(book, "genre", <<"F", "i", "c", "t", "i", "o", "n">>), "genre_confidence", <<"l", "o", "w">>),
             "genre_error", r.value)
    ELSE Put(Put(book, "genre", r.value), "genre_confidence", <<"h", "i", "g", "h">>)

\* _add_default_genres: the books themselves are changed
RECURSIVE _add_default_genres(_)
_add_default_genres(books) ==
    IF books = <<>> THEN <<>>
    ELSE <<Put(Put(Put(Head(books), "genre", <<"F", "i", "c", "t", "i", "o", "n">>),
                   "genre_confidence", <<"l", "o", "w">>),
               "genre_error", <<"O", "p", "e", "n", "A", "I", " ", "A", "P", "I", " ", "n", "o", "t", " ", "a", "v", "a", "i", "l", "a", "b", "l", "e">>)>>
         \o _add_default_genres(Tail(books))

---------------------------------------------------------------------------
(* BookSpineDetector.detect_books: one box of the loop                     *)

\* A box of the detector is a regular box [x1, y1, x2, y2] or an oriented
\* box with its four corners; the corners have whole coordinates and the
\* edges of an oriented box lie along the axes, so that its rotation is a
\* multiple of 90 degrees and every number below is a whole or a half.

\* the four corners: box.xyxyxyxy, or those made of box.xyxy
box_points(box) ==
    IF "points" \in DOMAIN box THEN box.points
    ELSE << <<box.x1, box.y1>>, <<box.x2, box.y1>>,
            <<box.x2, box.y2>>, <<box.x1, box.y2>> >>

abs(n) == IF n >= 0 THEN n ELSE -n

\* np.linalg.norm of the edge from p to q, one that lies along an axis
norm(p, q) == abs(q[1] - p[1]) + abs(q[2] - p[2])

\* np.linalg.norm(points[1] - points[0])
box_width(box) == norm(box_points(box)[1], box_points(box)[2])

\* np.linalg.norm(points[2] - points[1])
box_height(box) == norm(box_points(box)[2], box_points(box)[3])

\* a test that skips only a box both narrow and low
too_small_both(box) == box_width(box) < 10 /\ box_height(box) < 10

too_small(box) == box_width(box) < 10 \/ box_height(box) < 10

\* np.arctan2(edge1[1], edge1[0]) * 180 / np.pi, with the cosine and sine
\* cv2.getRotationMatrix2D puts in the matrix [[cos, sin], [-sin, cos]]
box_rotation(box) ==
    LET p  == box_points(box)
        dx == p[2][1] - p[1][1]
        dy == p[2][2] - p[1][2]
    IN  IF dy = 0 /\ dx >= 0 THEN [angle |-> 0, cos |-> 1, sin |-> 0]
        ELSE IF dy = 0 THEN [angle |-> 180, cos |-> -1, sin |-> 0]
        ELSE IF dy > 0 THEN [angle |-> 90, cos |-> 0, sin |-> 1]
        ELSE [angle |-> -90, cos |-> 0, sin |-> -1]

\* four times np.mean(points, axis=0)
center_times_4(box) ==
    LET p == box_points(box)
    IN  << p[1][1] + p[2][1] + p[3][1] + p[4][1],
           p[1][2] + p[2][2] + p[3][2] + p[4][2] >>

\* (new_width, new_height): the size of the rotated image
canvas_size(box) ==
    LET r == box_rotation(box)
    IN  << box_height(box) * abs(r.sin) + box_width(box) * abs(r.cos),
           box_height(box) * abs(r.cos) + box_width(box) * abs(r.sin) >>

\* four times the corners as cv2.transform maps them into the rotated image
rotated_points_times_4(box) ==
    LET p == box_points(box)
        r == box_rotation(box)
        c == center_times_4(box)
        n == canvas_size(box)
    IN  [ i \in 1..4 |->
            <<  r.cos * (4 * p[i][1] - c[1]) + r.sin * (4 * p[i][2] - c[2]) + 2 * n[1],
               -r.sin * (4 * p[i][1] - c[1]) + r.cos * (4 * p[i][2] - c[2]) + 2 * n[2] >> ]

\* int(x) of a number given as four times itself: towards zero
int_of_quarters(q) == IF q >= 0 THEN q \div 4 ELSE -((-q) \div 4)

min_of(S) == CHOOSE x \in S : \A y \in S : x <= y

max_of(S) == CHOOSE x \in S : \A y \in S : x >= y

\* the bounding box of the rotated corners, clamped to the rotated image
crop_coordinates(box) ==
    LET q  == rotated_points_times_4(box)
        n  == canvas_size(box)
        xs == {q[i][1] : i \in 1..4}
        ys == {q[i][2] : i \in 1..4}
    IN  [ x_min |-> max_of({0, int_of_quarters(min_of(xs))}),
          y_min |-> max_of({0, int_of_quarters(min_of(ys))}),
          x_max |-> min_of({n[1], int_of_quarters(max_of(xs))}),
          y_max |-> min_of({n[2], int_of_quarters(max_of(ys))}) ]

\* `if x_max <= x_min or y_max <= y_min`
invalid_crop(box) ==
    LET c == crop_coordinates(box)
    IN  c.x_max <= c.x_min \/ c.y_max <= c.y_min

\* book_info.update({...}) for box number n
with_annotation(info, box, n) ==
    [ k \in DOMAIN info \cup
              {"book_number", "bbox_coordinates", "center", "width", "height",
               "angle", "crop_coordinates", "confidence"} |->
        IF k = "book_number" THEN n
        ELSE IF k = "bbox_coordinates" THEN box_points(box)
        ELSE IF k = "center"
        THEN <<center_times_4(box)[1] \div 4, center_times_4(box)[2] \div 4>>
        ELSE IF k = "width" THEN box_width(box)
        ELSE IF k = "height" THEN box_height(box)
        ELSE IF k = "angle" THEN box_rotation(box).angle
        ELSE IF k = "crop_coordinates" THEN crop_coordinates(box)
        ELSE IF k = "confidence"
        THEN (IF info.isValid THEN <<"h", "i", "g", "h">> ELSE <<"l", "o", "w">>)
        ELSE info[k] ]

\* list comparison of two points, as min() and sort() compare them
point_le(p, q) == p[1] < q[1] \/ (p[1] = q[1] /\ p[2] <= q[2])

\* min(x['bbox_coordinates'][::2]): the lesser of corners 0 and 2
sort_key(book) ==
    LET c == book.bbox_coordinates IN
    IF point_le(c[1], c[3]) THEN c[1] ELSE c[3]

\* list.sort(key=...) is stable: a book goes after every book not greater
RECURSIVE insert_sorted(_, _)
insert_sorted(sorted, book) ==
    IF sorted = <<>> THEN <<book>>
    ELSE IF point_le(sort_key(Head(sorted)), sort_key(book))
         THEN <<Head(sorted)>> \o insert_sorted(Tail(sorted), book)
         ELSE <<book>> \o sorted

RECURSIVE sort_books(_)
sort_books(books) ==
    IF books = <<>> THEN <<>>
    ELSE insert_sorted(sort_books(SubSeq(books, 1, Len(books) - 1)),
                       books[Len(books)])

---------------------------------------------------------------------------
(* Outcomes of the vision call                                             *)

ErrorMessages == { <<"R", "e", "q", "u", "e", "s", "t", " ", "t", "i", "m", "e", "d", " ", "o", "u", "t", ".">>, <<>> }

TitleValues ==
    { <<"D", "u", "n", "e">>, <<>>, <<"U", "N", "K", "N", "O", "W", "N">>, <<"V", "o", "l", ".", " ", "n", "/", "a">>, <<"N", "o", "t", " ", "A", "v", "a", "i", "l", "a", "b", "l", "e">>, <<"U", "n", "c", "l", "e", "a", "r", " ", "S", "k", "i", "e", "s">> }

GenreValues ==
    { <<"[", "S", "c", "i", "e", "n", "c", "e", " ", "F", "i", "c", "t", "i", "o", "n", ",", " ", "A", "d", "v", "e", "n", "t", "u", "r", "e", ",", " ", "E", "p", "i", "c", "]">>, <<"F", "a", "n", "t", "a", "s", "y">>, <<>>, <<"[", "]">>, <<"[", " ", ",", " ", "D", "r", "a", "m", "a", "]">> }

ReasoningValues == { <<"G", "o", "l", "d", " ", "s", "e", "r", "i", "f", " ", "l", "e", "t", "t", "e", "r", "i", "n", "g">>, <<"G", "o", "l", "d", " ", "s", "e", "r", "i", "f", " ", "l", "e", "t", "t", "e", "r", "i", "n">>, <<>> }

NotesValues ==
    { <<"N", "o", "n", "e">>, <<>>, <<"N", "e", "e", "d", " ", "V", "a", "l", "i", "d", "a", "t", "i", "o", "n", " ", "-", " ", "a", "u", "t", "h", "o", "r", " ", "u", "n", "c", "l", "e", "a", "r">>, <<"n", "e", "e", "d", " ", "v", "a", "l", "i", "d", "a", "t", "i", "o", "n">>,
      <<"C", "a", "n", "n", "o", "t", " ", "d", "e", "t", "e", "r", "m", "i", "n", "e", " ", "t", "h", "e", " ", "a", "u", "t", "h", "o", "r">>, <<"A", "u", "t", "h", "o", "r", " ", "U", "N", "C", "L", "E", "A", "R">>, <<"T", "i", "t", "l", "e", " ", "n", "o", "t", " ", "v", "i", "s", "i", "b", "l", "e">>,
      <<"M", "u", "l", "t", "i", "p", "l", "e", " ", "p", "o", "s", "s", "i", "b", "i", "l", "i", "t", "i", "e", "s">>, <<"C", "o", "m", "p", "l", "e", "t", "e", "l", "y", " ", "o", "b", "s", "c", "u", "r", "e", "d">>, <<"L", "o", "w", " ", "C", "o", "n", "f", "i", "d", "e", "n", "c", "e", " ", "r", "e", "a", "d">>,
      <<"S", "o", "m", "e", "w", "h", "a", "t", " ", "u", "n", "c", "e", "r", "t", "a", "i", "n">>, <<"A", "m", "b", "i", "g", "u", "o", "u", "s", " ", "l", "a", "y", "o", "u", "t">> }

\* the six-field layout the prompt asks for
six_fields(title, genre, reasoning, notes) ==
    <<"T", "I", "T", "L", "E", ":", " ">> \o title
    \o <<"\n", "A", "U", "T", "H", "O", "R", ":", " ", "F", "r", "a", "n", "k", " ", "H", "e", "r", "b", "e", "r", "t", "\n", "G", "E", "N", "R", "E", ":", " ">> \o genre
    \o <<"\n", "S", "P", "I", "N", "E", "_", "A", "P", "P", "E", "A", "R", "A", "N", "C", "E", ":", " ", "D", "a", "r", "k", " ", "b", "l", "u", "e", " ", "c", "l", "o", "t", "h", "\n", "R", "E", "A", "S", "O", "N", "I", "N", "G", ":", " ">> \o reasoning
    \o <<"\n", "U", "N", "C", "E", "R", "T", "A", "I", "N", "T", "Y", "_", "N", "O", "T", "E", "S", ":", " ">> \o notes

\* GENRE: values around the bracket grammar
BracketGenreValues ==
    { <<"[", "M", "y", "s", "t", "e", "r", "y", "]">>, <<"[", "M", "y", "s", "t", "e", "r", "y", ",", "C", "r", "i", "m", "e", "]">>, <<"[", " ", "M", "y", "s", "t", "e", "r", "y", " ", ",", " ", " ", "C", "r", "i", "m", "e", " ", "]">>,
      <<"[", "M", "y", "s", "t", "e", "r", "y", ",", " ", "C", "r", "i", "m", "e", ",", " ", "N", "o", "i", "r", ",", " ", "P", "u", "l", "p", "]">>, <<"[", "M", "y", "s", "t", "e", "r", "y", ",", " ", ",", " ", "N", "o", "i", "r", "]">>, <<"M", "y", "s", "t", "e", "r", "y", ",", " ", "C", "r", "i", "m", "e">>,
      <<"[", "M", "y", "s", "t", "e", "r", "y", ",", " ", "C", "r", "i", "m", "e">>, <<"M", "y", "s", "t", "e", "r", "y", ",", " ", "C", "r", "i", "m", "e", "]">>, <<"[", "[", "S", "c", "i", "-", "F", "i", "]", ",", " ", "D", "r", "a", "m", "a", "]">>,
      <<"[", "F", "i", "c", "t", "i", "o", "n", ",", " ", "[", "Y", "A", "]", "]">>, <<"[">> }

OtherTexts ==
    { <<>>,
      <<"I", " ", "a", "m", " ", "s", "o", "r", "r", "y", ",", " ", "I", " ", "c", "a", "n", "n", "o", "t", " ", "r", "e", "a", "d", " ", "a", "n", "y", " ", "t", "e", "x", "t", " ", "i", "n", " ", "t", "h", "i", "s", " ", "i", "m", "a", "g", "e", ".">>,
      <<"t", "i", "t", "l", "e", ":", " ", "D", "u", "n", "e", "\n", "g", "e", "n", "r", "e", ":", " ", "F", "a", "n", "t", "a", "s", "y", "\n", "r", "e", "a", "s", "o", "n", "i", "n", "g", ":", " ", "G", "o", "l", "d", " ", "s", "e", "r", "i", "f", " ", "l", "e", "t", "t", "e", "r", "i", "n", "g">>,
      <<"T", "I", "T", "L", "E", ":", " ", "D", "u", "n", "e", "\r", "\n", "A", "U", "T", "H", "O", "R", ":", " ", "F", "r", "a", "n", "k", " ", "H", "e", "r", "b", "e", "r", "t", "\r", "\n", "G", "E", "N", "R", "E", ":", " ", "[", "S", "c", "i", "e", "n", "c", "e", " ", "F", "i", "c", "t", "i", "o", "n", "]", "\r", "\n", "R", "E", "A", "S", "O", "N", "I", "N", "G", ":", " ", "G", "o", "l", "d", " ", "s", "e", "r", "i", "f", " ", "l", "e", "t", "t", "e", "r", "i", "n", "g", "\r", "\n">>,
      <<"H", "e", "r", "e", " ", "i", "s", " ", "t", "h", "e", " ", "r", "e", "s", "u", "l", "t", ":", "\n", " ", " ", "T", "I", "T", "L", "E", ":", " ", " ", "D", "u", "n", "e", " ", "\n", "\n", " ", " ", "G", "E", "N", "R", "E", ":", " ", "F", "a", "n", "t", "a", "s", "y", "\n", " ", " ", "R", "E", "A", "S", "O", "N", "I", "N", "G", ":", " ", "G", "o", "l", "d", " ", "s", "e", "r", "i", "f", " ", "l", "e", "t", "t", "e", "r", "i", "n", "g", "\n", "T", "h", "a", "n", "k", "s">>,
      <<"T", "I", "T", "L", "E", ":", " ", "D", "u", "n", "e", " ", "T", "I", "T", "L", "E", ":", " ", "M", "e", "s", "s", "i", "a", "h", "\n", "G", "E", "N", "R", "E", ":", " ", "F", "a", "n", "t", "a", "s", "y", "\n", "R", "E", "A", "S", "O", "N", "I", "N", "G", ":", " ", "G", "o", "l", "d", " ", "s", "e", "r", "i", "f", " ", "l", "e", "t", "t", "e", "r", "i", "n", "g">>,
      <<"G", "E", "N", "R", "E", ":", " ", "[", "F", "a", "n", "t", "a", "s", "y", ",", " ", "E", "p", "i", "c", "]", "\n", "G", "E", "N", "R", "E", ":", " ", "D", "r", "a", "m", "a", "\n", "T", "I", "T", "L", "E", ":", " ", "D", "u", "n", "e", "\n", "R", "E", "A", "S", "O", "N", "I", "N", "G", ":", " ", "G", "o", "l", "d", " ", "s", "e", "r", "i", "f", " ", "l", "e", "t", "t", "e", "r", "i", "n", "g">> }

ResponseTexts ==
    { six_fields(t, g, r, u) :
          t \in TitleValues, g \in GenreValues,
          r \in ReasoningValues, u \in NotesValues }
    \cup { six_fields(<<"D", "u", "n", "e">>, g, <<"G", "o", "l", "d", " ", "s", "e", "r", "i", "f", " ", "l", "e", "t", "t", "e", "r", "i", "n", "g">>, <<"N", "o", "n", "e">>) :
               g \in BracketGenreValues }
    \cup OtherTexts

Responses ==
    { [kind |-> k, error |-> e] :
          k \in {"image_error", "api_error"}, e \in ErrorMessages }
    \cup { [kind |-> "no_choices"], [kind |-> "no_message_no_text"] }
    \cup { [kind |-> k, content |-> [is_none |-> TRUE]] :
               k \in {"message", "legacy_text"} }
    \cup { [kind |-> k, content |-> [is_none |-> FALSE, text |-> t]] :
               k \in {"message", "legacy_text"}, t \in ResponseTexts }

---------------------------------------------------------------------------
(* One extraction call: the vision model's outcome, then the record        *)

NoCall == [kind |-> "none"]

IdleVision == response = NoCall /\ vision_ret = NoCall

IdleMap ==
    /\ map_response = <<>>
    /\ mapped_genre = <<>>
    /\ remapped_genre = <<>>
    /\ map_pc = "idle"

IdleFallback ==
    /\ fb_title = <<>>
    /\ fb_author = <<>>
    /\ fb_genre = <<>>
    /\ fb_pc = "idle"

IdlePipeline ==
    /\ boxes = <<>>
    /\ categorizer = "none"
    /\ pc = "idle"
    /\ box_i = 1
    /\ detected_books = <<>>
    /\ categorized_books = <<>>
    /\ remote_log = <<>>
    /\ vision_calls = 0
    /\ ret_books = <<>>

IdleMeta ==
    /\ md_title = ""
    /\ md_author = NoCall
    /\ google_response = NoCall
    /\ openlib_response = NoCall
    /\ metadata_ret = NoCall

Callers == {1, 2}

IdleLimit ==
    /\ now = 0
    /\ last_request_time = 0
    /\ rl_pc = [t \in Callers |-> "off"]
    /\ rl_service = [t \in Callers |-> ""]
    /\ current_time = [t \in Callers |-> 0]
    /\ time_since_last = [t \in Callers |-> 0]
    /\ wake_time = [t \in Callers |-> 0]
    /\ request_log = <<>>

IdlePref ==
    /\ all_books = <<>>
    /\ selected_genres = <<>>
    /\ filtered_books = <<>>
    /\ pref_pc = "idle"

IdleRec ==
    /\ rec_detected = <<>>
    /\ rec_preferred = <<>>
    /\ rec_max = 0
    /\ recommendations = <<>>
    /\ fallback_recommendations = <<>>
    /\ rec_done = {}

IdleGen ==
    /\ generation = NoCall
    /\ openai_recommendations = <<>>
    /\ gen_pc = "idle"

IdleStore ==
    /\ detector_ready = FALSE
    /\ uploads = <<>>
    /\ analysis_files = <<>>
    /\ preferences_files = <<>>
    /\ annotated_files = {}
    /\ writes = <<>>
    /\ next_uuid = 0
    /\ request_count = 0
    /\ last_answer = <<>>

IdleApi == IdleGen /\ IdleStore

IdleService == IdleMeta /\ IdleLimit /\ IdlePref /\ IdleRec /\ IdleApi

IdleDetect == IdleVision /\ IdleMap /\ IdleFallback /\ IdlePipeline

InitVision ==
    /\ response \in Responses
    /\ vision_ret = NoCall
    /\ IdleMap
    /\ IdleFallback
    /\ IdlePipeline
    /\ IdleService

AnalyzeImage ==
    /\ response # NoCall
    /\ vision_ret = NoCall
    /\ vision_ret' = analyze_image_with_vision(response)
    /\ UNCHANGED <<response, mapVars, fallbackVars, pipelineVars, serviceVars>>

NextVision == AnalyzeImage

SpecVision == InitVision /\ [][NextVision]_vars

VisionReturned == vision_ret # NoCall

\* the record the call returned
book_info == vision_ret.value

\* the call reached _parse_openai_response
Parsed == VisionReturned /\ response.kind \in {"message", "legacy_text"}

ParsedText == Parsed /\ ~response.content.is_none

---------------------------------------------------------------------------
(* Properties of the parser and validator, under SpecVision                *)

C1_HighRiskPhrases ==
    { <<"c", "a", "n", "n", "o", "t", " ", "d", "e", "t", "e", "r", "m", "i", "n", "e">>, <<"u", "n", "c", "l", "e", "a", "r">>, <<"n", "o", "t", " ", "v", "i", "s", "i", "b", "l", "e">>, <<"m", "u", "l", "t", "i", "p", "l", "e", " ", "p", "o", "s", "s", "i", "b", "i", "l", "i", "t", "i", "e", "s">>,
      <<"c", "o", "m", "p", "l", "e", "t", "e", "l", "y", " ", "o", "b", "s", "c", "u", "r", "e", "d">>, <<"l", "o", "w", " ", "c", "o", "n", "f", "i", "d", "e", "n", "c", "e">>, <<"u", "n", "c", "e", "r", "t", "a", "i", "n">>, <<"a", "m", "b", "i", "g", "u", "o", "u", "s">> }

C1_PlaceholderTerms == { <<"u", "n", "k", "n", "o", "w", "n">>, <<"n", "/", "a">>, <<"n", "o", "t", " ", "a", "v", "a", "i", "l", "a", "b", "l", "e">>, <<"u", "n", "c", "l", "e", "a", "r">> }

\* C1: a parsed record is valid if and only if its trimmed title and its
\* trimmed primary genre are non-empty, its reasoning has at least 20
\* characters, its uncertainty notes hold neither the literal marker
\* "Need Validation" nor, in any letter case, a high-risk phrase, and its
\* title holds, in any letter case, no placeholder term.
C1_ValidIff ==
    Parsed =>
        ( book_info.isValid <=>
            /\ strip(book_info.title) # <<>>
            /\ strip(book_info.primary_genre) # <<>>
            /\ Len(book_info.reasoning) >= 20
            /\ ~contains(<<"N", "e", "e", "d", " ", "V", "a", "l", "i", "d", "a", "t", "i", "o", "n">>, book_info.uncertainty_notes)
            /\ \A t \in C1_HighRiskPhrases :
                   ~contains(t, lower(book_info.uncertainty_notes))
            /\ \A t \in C1_PlaceholderTerms :
                   ~contains(t, lower(book_info.title)) )

\* a valid record whose notes hold the marker in lower case only
C1_Witness ==
    /\ ParsedText
    /\ book_info.isValid
    /\ book_info.uncertainty_notes = <<"n", "e", "e", "d", " ", "v", "a", "l", "i", "d", "a", "t", "i", "o", "n">>
    /\ Len(book_info.reasoning) = 20

FieldPrefixes ==
    { <<"T", "I", "T", "L", "E", ":">>, <<"A", "U", "T", "H", "O", "R", ":">>, <<"G", "E", "N", "R", "E", ":">>, <<"S", "P", "I", "N", "E", "_", "A", "P", "P", "E", "A", "R", "A", "N", "C", "E", ":">>, <<"R", "E", "A", "S", "O", "N", "I", "N", "G", ":">>,
      <<"U", "N", "C", "E", "R", "T", "A", "I", "N", "T", "Y", "_", "N", "O", "T", "E", "S", ":">> }

\* the stripped lines of a text
text_lines(text) == strip_each(split(text, "\n"))

\* no line of the text carries one of the six fields
NoFieldLine(text) ==
    \A k \in 1..Len(text_lines(text)) :
        \A p \in FieldPrefixes : ~startswith(text_lines(text)[k], p)

\* the vision call failed: an error, a response of the wrong shape, or
\* content that is not the six-field layout at all
VisionCallFailed ==
    \/ response.kind \in {"image_error", "api_error", "no_choices",
                          "no_message_no_text"}
    \/ /\ response.kind \in {"message", "legacy_text"}
       /\ \/ response.content.is_none
          \/ NoFieldLine(response.content.text)

\* C2: whatever the vision call's outcome (an exception, a response without
\* choices, malformed content), analyze_image_with_vision does not raise and
\* returns an invalid record with a non-empty diagnostic note in
\* uncertainty_notes or reasoning.
C2_FailureGivesDiagnostic ==
    (VisionReturned /\ VisionCallFailed) =>
        /\ ~vision_ret.raised
        /\ book_info.isValid = FALSE
        /\ \/ Get(book_info, "uncertainty_notes") # <<>>
           \/ Get(book_info, "reasoning") # <<>>

\* C3: when parsing raises, nothing propagates, the error is recorded in
\* uncertainty_notes and the returned record is invalid.
C3_ParseErrorInvalid ==
    (Parsed /\ response.content.is_none) =>
        /\ ~vision_ret.raised
        /\ startswith(book_info.uncertainty_notes, <<"P", "a", "r", "s", "i", "n", "g", " ", "e", "r", "r", "o", "r", ":", " ">>)
        /\ Len(book_info.uncertainty_notes) > Len(<<"P", "a", "r", "s", "i", "n", "g", " ", "e", "r", "r", "o", "r", ":", " ">>)
        /\ book_info.isValid = FALSE

C3_Witness ==
    /\ Parsed
    /\ response.kind = "message"
    /\ response.content.is_none
    /\ contains(<<"N", "o", "n", "e", "T", "y", "p", "e">>, book_info.uncertainty_notes)
    /\ ~book_info.isValid

\* the stripped lines of the response that start with GENRE:
RECURSIVE genre_lines(_)
genre_lines(lines) ==
    IF lines = <<>> THEN <<>>
    ELSE IF startswith(Head(lines), <<"G", "E", "N", "R", "E", ":">>)
         THEN <<Head(lines)>> \o genre_lines(Tail(lines))
         ELSE genre_lines(Tail(lines))

\* the value of a line: the rest of it after the leading prefix, trimmed
value_after(line, prefix) == strip(SubSeq(line, Len(prefix) + 1, Len(line)))

C4_Value ==
    LET ls == genre_lines(text_lines(response.content.text))
    IN  value_after(ls[Len(ls)], <<"G", "E", "N", "R", "E", ":">>)

\* the comma-separated items between the two delimiting brackets
C4_Items == strip_each(split(SubSeq(C4_Value, 2, Len(C4_Value) - 1), ","))

C4_Item(n) == IF n <= Len(C4_Items) THEN C4_Items[n] ELSE <<>>

\* C4: a bracket-delimited GENRE: value is split on commas and its first
\* three items, trimmed, are the primary, secondary and tertiary genre (a
\* missing position is empty, a fourth item is dropped); any other value is
\* the primary genre whole, with secondary and tertiary empty.
C4_GenreGrammar ==
    (ParsedText /\ genre_lines(text_lines(response.content.text)) # <<>>) =>
        IF startswith(C4_Value, <<"[">>) /\ endswith(C4_Value, <<"]">>)
        THEN /\ book_info.primary_genre = C4_Item(1)
             /\ book_info.secondary_genre = C4_Item(2)
             /\ book_info.tertiary_genre = C4_Item(3)
        ELSE /\ book_info.primary_genre = C4_Value
             /\ book_info.secondary_genre = <<>>
             /\ book_info.tertiary_genre = <<>>

\* the stripped lines that start with the prefix
RECURSIVE C28_LinesWith(_, _)
C28_LinesWith(lines, prefix) ==
    IF lines = <<>> THEN <<>>
    ELSE IF startswith(Head(lines), prefix)
         THEN <<Head(lines)>> \o C28_LinesWith(Tail(lines), prefix)
         ELSE C28_LinesWith(Tail(lines), prefix)

\* the five fields a line sets whole, each with its prefix
C28_PlainFields ==
    { <<"title", <<"T", "I", "T", "L", "E", ":">>>>, <<"author", <<"A", "U", "T", "H", "O", "R", ":">>>>,
      <<"spine_appearance", <<"S", "P", "I", "N", "E", "_", "A", "P", "P", "E", "A", "R", "A", "N", "C", "E", ":">>>>,
      <<"reasoning", <<"R", "E", "A", "S", "O", "N", "I", "N", "G", ":">>>>,
      <<"uncertainty_notes", <<"U", "N", "C", "E", "R", "T", "A", "I", "N", "T", "Y", "_", "N", "O", "T", "E", "S", ":">>>> }

\* the field is the rest of the last line with its prefix, or still empty
C28_FieldIsRest(field, prefix) ==
    LET ls == C28_LinesWith(text_lines(response.content.text), prefix)
    IN  IF ls = <<>>
        THEN book_info[field] = <<>>
        ELSE book_info[field] = value_after(ls[Len(ls)], prefix)

\* C28: the value of a field is the rest of its line after the leading
\* prefix, trimmed, also when that rest holds a prefix string; a field no
\* line names keeps its empty value.
C28_ValueIsRestOfLine ==
    ParsedText =>
        /\ \A fp \in C28_PlainFields : C28_FieldIsRest(fp[1], fp[2])
        /\ genre_lines(text_lines(response.content.text)) = <<>> =>
              /\ book_info.genre = <<>>
              /\ book_info.primary_genre = <<>>
              /\ book_info.secondary_genre = <<>>
              /\ book_info.tertiary_genre = <<>>

\* the rest of the line, after its leading prefix, holds the prefix again
C28_PrefixAgain(prefix) ==
    \E k \in 1..Len(text_lines(response.content.text)) :
        LET line == text_lines(response.content.text)[k]
        IN  /\ startswith(line, prefix)
            /\ contains(prefix, SubSeq(line, Len(prefix) + 1, Len(line)))

\* what does hold: the same, for fields whose lines hold the prefix once
C28_RestWhenPrefixOnce ==
    ParsedText =>
        \A fp \in C28_PlainFields :
            ~C28_PrefixAgain(fp[2]) => C28_FieldIsRest(fp[1], fp[2])

---------------------------------------------------------------------------
(* One genre mapping, and the mapping of its result                        *)

upper_char(c) ==
    IF \E i \in 1..Len(LowerAlpha) : LowerAlpha[i] = c
    THEN UpperAlpha[CHOOSE i \in 1..Len(LowerAlpha) : LowerAlpha[i] = c]
    ELSE c

RECURSIVE upper(_)
upper(s) ==
    IF s = <<>> THEN <<>> ELSE <<upper_char(Head(s))>> \o upper(Tail(s))

CanonicalNames == { predefined_genres[k] : k \in 1..Len(predefined_genres) }

MappingKeys == { genre_mapping[k][1] : k \in 1..Len(genre_mapping) }

OtherGenreResponses ==
    { <<>>, <<"C", "o", "o", "k", "b", "o", "o", "k">>, <<"Y", "o", "u", "n", "g", " ", "A", "d", "u", "l", "t">>, <<"G", "e", "n", "r", "e", ":", " ", "M", "y", "s", "t", "e", "r", "y">>, <<"S", "c", "i", "-", "F", "i", "/", "F", "a", "n", "t", "a", "s", "y">>,
      <<"H", "i", "s", "t", "o", "r", "i", "c", "a", "l", " ", "F", "a", "n", "t", "a", "s", "y">>, <<"T", "r", "u", "e", " ", "C", "r", "i", "m", "e">>, <<"T", "h", "i", "s", " ", "i", "s", " ", "a", " ", "d", "e", "t", "e", "c", "t", "i", "v", "e", " ", "s", "t", "o", "r", "y", ".">>,
      <<"S", "p", "e", "c", "u", "l", "a", "t", "i", "v", "e", " ", "F", "i", "c", "t", "i", "o", "n">>, <<"R", "o", "m", "a", "n", "t", "i", "c", " ", "F", "i", "c", "t", "i", "o", "n">>, <<"N", "o", "n", "f", "i", "c", "t", "i", "o", "n">>, <<"A", "r", "t", " ", "H", "i", "s", "t", "o", "r", "y">>,
      <<"A", " ", "p", "a", "r", "t", "y", " ", "g", "a", "m", "e">>, <<"T", "r", "a", "v", "e", "l">> }

GenreResponses ==
    CanonicalNames
    \cup { lower(g) : g \in CanonicalNames }
    \cup { upper(g) : g \in CanonicalNames }
    \cup { <<" ">> \o g \o <<"\n">> : g \in CanonicalNames }
    \cup MappingKeys
    \cup OtherGenreResponses

InitMap ==
    /\ map_response \in GenreResponses
    /\ mapped_genre = <<>>
    /\ remapped_genre = <<>>
    /\ map_pc = "call"
    /\ IdleVision
    /\ IdleFallback
    /\ IdlePipeline
    /\ IdleService

MapGenre ==
    /\ map_pc = "call"
    /\ mapped_genre' = _validate_and_map_genre(map_response)
    /\ map_pc' = "mapped"
    /\ UNCHANGED <<map_response, remapped_genre, visionVars, fallbackVars, pipelineVars, serviceVars>>

MapAgain ==
    /\ map_pc = "mapped"
    /\ remapped_genre' = _validate_and_map_genre(mapped_genre)
    /\ map_pc' = "remapped"
    /\ UNCHANGED <<map_response, mapped_genre, visionVars, fallbackVars, pipelineVars, serviceVars>>

NextMap == MapGenre \/ MapAgain

SpecGenreMap == InitMap /\ [][NextMap]_vars

---------------------------------------------------------------------------
(* One keyword fallback                                                    *)

FallbackTitles ==
    { <<>>, <<"D", "u", "n", "e">>, <<"T", "h", "e", " ", "G", "r", "e", "a", "t", " ", "G", "a", "t", "s", "b", "y">>, <<"M", "u", "r", "d", "e", "r", " ", "o", "n", " ", "t", "h", "e", " ", "O", "r", "i", "e", "n", "t", " ", "E", "x", "p", "r", "e", "s", "s">>,
      <<"T", "h", "e", " ", "M", "y", "s", "t", "e", "r", "y", " ", "o", "f", " ", "L", "o", "v", "e">>, <<"L", "o", "v", "e", " ", "a", "n", "d", " ", "W", "a", "r">>, <<"L", "O", "V", "E", " ", "I", "N", " ", "S", "P", "A", "C", "E">>, <<"H", "e", "a", "r", "t", " ", "o", "f", " ", "a", " ", "D", "r", "a", "g", "o", "n">>,
      <<"T", "h", "e", " ", "A", "r", "t", " ", "o", "f", " ", "W", "a", "r">>, <<"C", "r", "i", "m", "e", " ", "a", "n", "d", " ", "P", "u", "n", "i", "s", "h", "m", "e", "n", "t">>, <<"S", "p", "a", "c", "e", " ", "W", "i", "z", "a", "r", "d">>, <<"R", "o", "b", "o", "t", " ", "D", "r", "e", "a", "m", "s">>,
      <<"F", "u", "t", "u", "r", "e", " ", "H", "i", "s", "t", "o", "r", "y">>, <<"S", "c", "i", "-", "F", "i", " ", "C", "l", "a", "s", "s", "i", "c", "s">>, <<"M", "a", "g", "i", "c", " ", "B", "u", "s", "i", "n", "e", "s", "s">>, <<"A", " ", "H", "i", "s", "t", "o", "r", "y", " ", "o", "f", " ", "M", "a", "g", "i", "c">>,
      <<"B", "a", "t", "t", "l", "e", " ", "C", "o", "d", "e">>, <<"M", "a", "n", "a", "g", "i", "n", "g", " ", "S", "o", "f", "t", "w", "a", "r", "e">>, <<"T", "h", "e", " ", "L", "e", "a", "n", " ", "E", "n", "t", "r", "e", "p", "r", "e", "n", "e", "u", "r">>,
      <<"C", "l", "e", "a", "n", " ", "C", "o", "d", "e">>, <<"H", "i", "g", "h", " ", "T", "e", "c", "h", " ", "S", "u", "c", "c", "e", "s", "s">>, <<"A", "t", "o", "m", "i", "c", " ", "H", "a", "b", "i", "t", "s">>, <<"S", "e", "l", "f", "-", "H", "e", "l", "p", " ", "P", "o", "e", "m", "s">>,
      <<"T", "h", "e", " ", "L", "i", "f", "e", " ", "o", "f", " ", "P", "i">>, <<"M", "e", "m", "o", "i", "r", " ", "o", "f", " ", "a", "n", " ", "A", "r", "t", "i", "s", "t">>, <<"C", "o", "l", "l", "e", "c", "t", "e", "d", " ", "V", "e", "r", "s", "e">>, <<"P", "o", "e", "t", "r", "y", " ", "a", "s", " ", "A", "r", "t">>,
      <<"P", "a", "i", "n", "t", "i", "n", "g", " ", "D", "r", "a", "m", "a">>, <<"I", "n", "t", "e", "r", "i", "o", "r", " ", "D", "e", "s", "i", "g", "n">>, <<"T", "h", "e", " ", "P", "l", "a", "y", "b", "o", "o", "k">>, <<"T", "h", "e", "a", "t", "e", "r", " ", "W", "o", "r", "k", "s">>,
      <<"D", "r", "a", "m", "a", " ", "Q", "u", "e", "e", "n">>, <<"S", "m", "a", "r", "t", " ", "P", "e", "o", "p", "l", "e">>, <<"D", "e", "p", "a", "r", "t", "u", "r", "e", "s">>, <<"U", "n", "i", "v", "e", "r", "s", "e">>, <<"D", "e", "t", "e", "c", "t", "i", "v", "e", " ", "S", "t", "o", "r", "i", "e", "s">> }

FallbackAuthors == { <<>>, <<"A", "g", "a", "t", "h", "a", " ", "C", "h", "r", "i", "s", "t", "i", "e">>, <<"H", ".", " ", "P", ".", " ", "L", "o", "v", "e", "c", "r", "a", "f", "t">> }

InitFallback ==
    /\ fb_title \in FallbackTitles
    /\ fb_author \in FallbackAuthors
    /\ fb_genre = <<>>
    /\ fb_pc = "call"
    /\ IdleVision
    /\ IdleMap
    /\ IdlePipeline
    /\ IdleService

FallbackCategorize ==
    /\ fb_pc = "call"
    /\ fb_genre' = _fallback_categorization(fb_title, fb_author)
    /\ fb_pc' = "done"
    /\ UNCHANGED <<fb_title, fb_author, visionVars, mapVars, pipelineVars, serviceVars>>

NextFallback == FallbackCategorize

SpecFallback == InitFallback /\ [][NextFallback]_vars

---------------------------------------------------------------------------
(* Properties of the genre mapping, under SpecGenreMap                     *)

C7_CanonicalNames ==
    { <<"F", "i", "c", "t", "i", "o", "n">>, <<"N", "o", "n", "-", "F", "i", "c", "t", "i", "o", "n">>, <<"M", "y", "s", "t", "e", "r", "y">>, <<"S", "c", "i", "e", "n", "c", "e", " ", "F", "i", "c", "t", "i", "o", "n">>, <<"F", "a", "n", "t", "a", "s", "y">>,
      <<"R", "o", "m", "a", "n", "c", "e">>, <<"T", "h", "r", "i", "l", "l", "e", "r">>, <<"B", "i", "o", "g", "r", "a", "p", "h", "y">>, <<"H", "i", "s", "t", "o", "r", "y">>, <<"S", "e", "l", "f", "-", "H", "e", "l", "p">>, <<"B", "u", "s", "i", "n", "e", "s", "s">>,
      <<"T", "e", "c", "h", "n", "o", "l", "o", "g", "y">>, <<"A", "r", "t">>, <<"P", "o", "e", "t", "r", "y">>, <<"D", "r", "a", "m", "a">> }

\* the response as the mapping reads it: lower-cased and trimmed
CleanResponse == strip(lower(map_response))

\* C7: a canonical genre name, in any letter case, maps to that canonical
\* name, so the mapping of a mapping's result is that result; a response
\* that is no canonical name and holds no synonym-table key maps to Fiction.
C7_MappingIdempotent ==
    /\ map_pc \in {"mapped", "remapped"} =>
          /\ \A g \in C7_CanonicalNames :
                 CleanResponse = lower(g) => mapped_genre = g
          /\ ( /\ \A g \in C7_CanonicalNames : CleanResponse # lower(g)
               /\ \A key \in MappingKeys : ~contains(key, CleanResponse) )
             => mapped_genre = <<"F", "i", "c", "t", "i", "o", "n">>
    /\ map_pc = "remapped" => remapped_genre = mapped_genre

\* a canonical name in upper case, mapped twice
C7_Witness ==
    /\ map_pc = "remapped"
    /\ map_response = <<"N", "O", "N", "-", "F", "I", "C", "T", "I", "O", "N">>
    /\ mapped_genre = <<"N", "o", "n", "-", "F", "i", "c", "t", "i", "o", "n">>
    /\ remapped_genre = <<"N", "o", "n", "-", "F", "i", "c", "t", "i", "o", "n">>

\* C8: a response that is not a canonical name but is a synonym-table key
\* maps to the genre the table gives that key; so "detective" and "crime"
\* map to Mystery, "sci-fi" and "speculative fiction" to Science Fiction.
C8_SynonymReachesGenre ==
    map_pc \in {"mapped", "remapped"} =>
        /\ \A k \in 1..Len(genre_mapping) :
               CleanResponse = genre_mapping[k][1] =>
                   mapped_genre = genre_mapping[k][2]
        /\ CleanResponse \in {<<"d", "e", "t", "e", "c", "t", "i", "v", "e">>, <<"c", "r", "i", "m", "e">>} => mapped_genre = <<"M", "y", "s", "t", "e", "r", "y">>
        /\ CleanResponse \in {<<"s", "c", "i", "-", "f", "i">>, <<"s", "p", "e", "c", "u", "l", "a", "t", "i", "v", "e", " ", "f", "i", "c", "t", "i", "o", "n">>} =>
               mapped_genre = <<"S", "c", "i", "e", "n", "c", "e", " ", "F", "i", "c", "t", "i", "o", "n">>

---------------------------------------------------------------------------
(* Properties of the keyword fallback, under SpecFallback                  *)

C10_Order ==
    << <<<<"M", "y", "s", "t", "e", "r", "y">>, {<<"m", "y", "s", "t", "e", "r", "y">>, <<"m", "u", "r", "d", "e", "r">>, <<"d", "e", "t", "e", "c", "t", "i", "v", "e">>, <<"c", "r", "i", "m", "e">>}>>,
       <<<<"R", "o", "m", "a", "n", "c", "e">>, {<<"l", "o", "v", "e">>, <<"r", "o", "m", "a", "n", "c", "e">>, <<"h", "e", "a", "r", "t">>}>>,
       <<<<"S", "c", "i", "e", "n", "c", "e", " ", "F", "i", "c", "t", "i", "o", "n">>, {<<"s", "p", "a", "c", "e">>, <<"f", "u", "t", "u", "r", "e">>, <<"r", "o", "b", "o", "t">>, <<"a", "l", "i", "e", "n">>, <<"s", "c", "i", "-", "f", "i">>}>>,
       <<<<"F", "a", "n", "t", "a", "s", "y">>, {<<"m", "a", "g", "i", "c">>, <<"d", "r", "a", "g", "o", "n">>, <<"f", "a", "n", "t", "a", "s", "y">>, <<"w", "i", "z", "a", "r", "d">>}>>,
       <<<<"H", "i", "s", "t", "o", "r", "y">>, {<<"h", "i", "s", "t", "o", "r", "y">>, <<"h", "i", "s", "t", "o", "r", "i", "c", "a", "l">>, <<"w", "a", "r">>, <<"b", "a", "t", "t", "l", "e">>}>>,
       <<<<"B", "u", "s", "i", "n", "e", "s", "s">>, {<<"b", "u", "s", "i", "n", "e", "s", "s">>, <<"m", "a", "n", "a", "g", "e", "m", "e", "n", "t">>, <<"e", "n", "t", "r", "e", "p", "r", "e", "n", "e", "u", "r">>}>>,
       <<<<"T", "e", "c", "h", "n", "o", "l", "o", "g", "y">>, {<<"p", "r", "o", "g", "r", "a", "m", "m", "i", "n", "g">>, <<"c", "o", "d", "e">>, <<"s", "o", "f", "t", "w", "a", "r", "e">>, <<"t", "e", "c", "h">>}>>,
       <<<<"S", "e", "l", "f", "-", "H", "e", "l", "p">>, {<<"s", "e", "l", "f", "-", "h", "e", "l", "p">>, <<"s", "u", "c", "c", "e", "s", "s">>, <<"m", "o", "t", "i", "v", "a", "t", "i", "o", "n">>, <<"h", "a", "b", "i", "t", "s">>}>>,
       <<<<"B", "i", "o", "g", "r", "a", "p", "h", "y">>, {<<"b", "i", "o", "g", "r", "a", "p", "h", "y">>, <<"l", "i", "f", "e", " ", "o", "f">>, <<"m", "e", "m", "o", "i", "r">>}>>,
       <<<<"P", "o", "e", "t", "r", "y">>, {<<"p", "o", "e", "t", "r", "y">>, <<"p", "o", "e", "m", "s">>, <<"v", "e", "r", "s", "e">>}>>,
       <<<<"A", "r", "t">>, {<<"a", "r", "t">>, <<"p", "a", "i", "n", "t", "i", "n", "g">>, <<"d", "e", "s", "i", "g", "n">>}>>,
       <<<<"D", "r", "a", "m", "a">>, {<<"d", "r", "a", "m", "a">>, <<"p", "l", "a", "y">>, <<"t", "h", "e", "a", "t", "e", "r">>}>> >>

\* the categories, by position in the order, with a keyword in the title
C10_Matching(title) ==
    { k \in 1..Len(C10_Order) :
          \E w \in C10_Order[k][2] : contains(w, lower(title)) }

\* C10: the fallback gives the genre of the earliest category, in the fixed
\* order, with a keyword that is a substring of the lower-cased title, and
\* Fiction when there is none, whoever the author is.
C10_FirstCategoryWins ==
    fb_pc = "done" =>
        LET m == C10_Matching(fb_title) IN
        IF m = {} THEN fb_genre = <<"F", "i", "c", "t", "i", "o", "n">>
        ELSE \E k \in m : /\ \A j \in m : k <= j
                          /\ fb_genre = C10_Order[k][1]

\* a title with keywords of two categories, and an author with one as well
C10_Witness ==
    /\ fb_pc = "done"
    /\ fb_title = <<"T", "h", "e", " ", "M", "y", "s", "t", "e", "r", "y", " ", "o", "f", " ", "L", "o", "v", "e">>
    /\ fb_author = <<"H", ".", " ", "P", ".", " ", "L", "o", "v", "e", "c", "r", "a", "f", "t">>
    /\ Cardinality(C10_Matching(fb_title)) = 2
    /\ fb_genre = <<"M", "y", "s", "t", "e", "r", "y">>

---------------------------------------------------------------------------
(* detect_books on one image: the loop over the boxes, the sort, and the   *)
(* categorizer                                                             *)

MaxBoxes == 2

\* boxes of the detector on a 400 x 400 image: three regular boxes, the
\* second narrower than 10 pixels, and three oriented boxes, turned by 90,
\* 180 and -90 degrees, the last one lower than 10 pixels
Boxes ==
    { [x1 |-> 0, y1 |-> 0, x2 |-> 100, y2 |-> 300],
      [x1 |-> 120, y1 |-> 10, x2 |-> 126, y2 |-> 300],
      [x1 |-> 40, y1 |-> 20, x2 |-> 90, y2 |-> 280],
      [points |-> << <<200, 50>>, <<200, 351>>, <<170, 351>>, <<170, 50>> >>],
      [points |-> << <<390, 390>>, <<379, 390>>, <<379, 100>>, <<390, 100>> >>],
      [points |-> << <<300, 300>>, <<300, 200>>, <<309, 200>>, <<309, 300>> >>] }

BoxLists == UNION { [1..n -> Boxes] : n \in 0..MaxBoxes }

\* outcomes of the extraction call for one crop
PipelineResponses ==
    { [kind |-> "message", content |-> [is_none |-> FALSE, text |->
          six_fields(<<"D", "u", "n", "e">>, <<"[", "S", "c", "i", "e", "n", "c", "e", " ", "F", "i", "c", "t", "i", "o", "n", ",", " ", "A", "d", "v", "e", "n", "t", "u", "r", "e", ",", " ", "E", "p", "i", "c", "]">>,
                     <<"G", "o", "l", "d", " ", "s", "e", "r", "i", "f", " ", "l", "e", "t", "t", "e", "r", "i", "n", "g">>, <<"N", "o", "n", "e">>)]],
      [kind |-> "message", content |-> [is_none |-> FALSE, text |->
          six_fields(<<"M", "u", "r", "d", "e", "r", " ", "o", "n", " ", "t", "h", "e", " ", "O", "r", "i", "e", "n", "t", " ", "E", "x", "p", "r", "e", "s", "s">>, <<"C", "l", "a", "s", "s", "i", "c", " ", "W", "h", "o", "d", "u", "n", "i", "t">>,
                     <<"G", "o", "l", "d", " ", "s", "e", "r", "i", "f", " ", "l", "e", "t", "t", "e", "r", "i", "n", "g">>, <<"N", "e", "e", "d", " ", "V", "a", "l", "i", "d", "a", "t", "i", "o", "n", " ", "-", " ", "a", "u", "t", "h", "o", "r", " ", "u", "n", "c", "l", "e", "a", "r">>)]],
      [kind |-> "message", content |-> [is_none |-> FALSE, text |->
          <<"I", " ", "a", "m", " ", "s", "o", "r", "r", "y", ",", " ", "I", " ", "c", "a", "n", "n", "o", "t", " ", "r", "e", "a", "d", " ", "a", "n", "y", " ", "t", "e", "x", "t", " ", "i", "n", " ", "t", "h", "i", "s", " ", "i", "m", "a", "g", "e", ".">>]],
      [kind |-> "api_error", error |-> <<"R", "e", "q", "u", "e", "s", "t", " ", "t", "i", "m", "e", "d", " ", "o", "u", "t", ".">>] }

\* outcomes of the classification request for one book
RemoteOutcomes ==
    { [kind |-> "api_error", error |-> <<"R", "e", "q", "u", "e", "s", "t", " ", "t", "i", "m", "e", "d", " ", "o", "u", "t", ".">>],
      [kind |-> "no_choices"],
      [kind |-> "message", content |-> [is_none |-> TRUE]],
      [kind |-> "message", content |-> [is_none |-> FALSE, text |-> <<"S", "c", "i", "e", "n", "c", "e", " ", "F", "i", "c", "t", "i", "o", "n">>]],
      [kind |-> "message", content |-> [is_none |-> FALSE, text |-> <<"A", "n", " ", "e", "p", "i", "c", " ", "s", "a", "g", "a">>]],
      [kind |-> "message", content |-> [is_none |-> FALSE, text |-> <<>>]],
      [kind |-> "legacy_text", content |-> [is_none |-> FALSE, text |-> <<" ", "s", "c", "i", "-", "f", "i", " ", "t", "h", "r", "i", "l", "l", "e", "r", "\n">>]] }

Init ==
    /\ boxes \in BoxLists
    /\ categorizer \in {"none", "no_client", "ready"}
    /\ pc = "detect"
    /\ box_i = 1
    /\ detected_books = <<>>
    /\ categorized_books = <<>>
    /\ remote_log = <<>>
    /\ vision_calls = 0
    /\ ret_books = <<>>
    /\ IdleVision
    /\ IdleMap
    /\ IdleFallback
    /\ IdleService

\* a box narrower or lower than 10 pixels, or one whose crop is empty:
\* `continue`
SkipBox ==
    /\ pc = "detect"
    /\ box_i <= Len(boxes)
    /\ too_small(boxes[box_i]) \/ invalid_crop(boxes[box_i])
    /\ box_i' = box_i + 1
    /\ UNCHANGED <<boxes, categorizer, pc, detected_books, categorized_books,
                   remote_log, vision_calls, ret_books,
                   visionVars, mapVars, fallbackVars,
                   serviceVars>>

\* any other box: crop, one extraction call, annotate, append
AnalyzeBox ==
    /\ pc = "detect"
    /\ box_i <= Len(boxes)
    /\ ~too_small(boxes[box_i])
    /\ ~invalid_crop(boxes[box_i])
    /\ \E resp \in PipelineResponses :
          LET r == analyze_image_with_vision(resp) IN
          \* an exception in the body: `continue`
          detected_books' =
              IF r.raised THEN detected_books
              ELSE Append(detected_books,
                          with_annotation(r.value, boxes[box_i], box_i))
    /\ vision_calls' = vision_calls + 1
    /\ box_i' = box_i + 1
    /\ UNCHANGED <<boxes, categorizer, pc, categorized_books, remote_log,
                   ret_books, visionVars, mapVars, fallbackVars,
                   serviceVars>>

LoopDone == pc = "detect" /\ box_i > Len(boxes)

\* `if not detected_books: return []`
ReturnNoBooks ==
    /\ LoopDone
    /\ detected_books = <<>>
    /\ ret_books' = <<>>
    /\ pc' = "done"
    /\ UNCHANGED <<boxes, categorizer, box_i, detected_books, categorized_books,
                   remote_log, vision_calls, visionVars, mapVars, fallbackVars,
                   serviceVars>>

\* sort, and no categorizer on the detector: the sorted list is returned
ReturnUncategorized ==
    /\ LoopDone
    /\ detected_books # <<>>
    /\ categorizer = "none"
    /\ detected_books' = sort_books(detected_books)
    /\ ret_books' = sort_books(detected_books)
    /\ pc' = "done"
    /\ UNCHANGED <<boxes, categorizer, box_i, categorized_books, remote_log,
                   vision_calls, visionVars, mapVars, fallbackVars,
                   serviceVars>>

\* sort, and categorize_books without a client: _add_default_genres
CategorizeWithoutClient ==
    /\ LoopDone
    /\ detected_books # <<>>
    /\ categorizer = "no_client"
    /\ detected_books' = _add_default_genres(sort_books(detected_books))
    /\ ret_books' = _add_default_genres(sort_books(detected_books))
    /\ pc' = "done"
    /\ UNCHANGED <<boxes, categorizer, box_i, categorized_books, remote_log,
                   vision_calls, visionVars, mapVars, fallbackVars,
                   serviceVars>>

\* sort, and categorize_books with a client: its loop starts
StartCategorize ==
    /\ LoopDone
    /\ detected_books # <<>>
    /\ categorizer = "ready"
    /\ detected_books' = sort_books(detected_books)
    /\ categorized_books' = <<>>
    /\ pc' = "categorize"
    /\ UNCHANGED <<boxes, categorizer, box_i, remote_log, vision_calls,
                   ret_books, visionVars, mapVars, fallbackVars,
                   serviceVars>>

\* the book categorize_books is at
next_book == detected_books[Len(categorized_books) + 1]

\* a book without a title: 'Fiction', and no request is sent
CategorizeUntitled ==
    /\ pc = "categorize"
    /\ Len(categorized_books) < Len(detected_books)
    /\ Get(next_book, "title") = <<>>
    /\ categorized_books' =
           Append(categorized_books, categorize_one(next_book, [kind |-> "no_call"]))
    /\ remote_log' = Append(remote_log, "no_call")
    /\ UNCHANGED <<boxes, categorizer, pc, box_i, detected_books, vision_calls,
                   ret_books, visionVars, mapVars, fallbackVars,
                   serviceVars>>

\* a book with a title: one classification request, whatever its outcome
CategorizeRemote ==
    /\ pc = "categorize"
    /\ Len(categorized_books) < Len(detected_books)
    /\ Get(next_book, "title") # <<>>
    /\ \E remote \in RemoteOutcomes :
          /\ categorized_books' =
                 Append(categorized_books, categorize_one(next_book, remote))
          /\ remote_log' =
                 Append(remote_log,
                        IF remote.kind = "message" /\ remote.content.is_none
                        THEN "content_none" ELSE remote.kind)
    /\ UNCHANGED <<boxes, categorizer, pc, box_i, detected_books, vision_calls,
                   ret_books, visionVars, mapVars, fallbackVars,
                   serviceVars>>

\* categorize_books returns its list, and detect_books returns that
ReturnCategorized ==
    /\ pc = "categorize"
    /\ Len(categorized_books) = Len(detected_books)
    /\ ret_books' = categorized_books
    /\ pc' = "done"
    /\ UNCHANGED <<boxes, categorizer, box_i, detected_books, categorized_books,
                   remote_log, vision_calls, visionVars, mapVars, fallbackVars,
                   serviceVars>>

Next ==
    \/ SkipBox
    \/ AnalyzeBox
    \/ ReturnNoBooks
    \/ ReturnUncategorized
    \/ CategorizeWithoutClient
    \/ StartCategorize
    \/ CategorizeUntitled
    \/ CategorizeRemote
    \/ ReturnCategorized

Spec == Init /\ [][Next]_vars

---------------------------------------------------------------------------
(* Properties of detect_books and categorize_books, under Spec             *)

DefaultsAdded == pc = "done" /\ categorizer = "no_client"

C6_GenreIsCanonical ==
    /\ \A k \in 1..Len(categorized_books) :
          categorized_books[k].genre \in C7_CanonicalNames
    /\ (pc = "done" /\ categorizer # "none") =>
          \A k \in 1..Len(ret_books) :
              ret_books[k].genre \in C7_CanonicalNames

\* a returned batch: one request answered with unmappable text, one failed
C6_Witness ==
    /\ pc = "done"
    /\ categorizer = "ready"
    /\ remote_log = <<"message", "api_error">>
    /\ ret_books[1].genre = <<"F", "i", "c", "t", "i", "o", "n">>
    /\ ret_books[2].genre = <<"M", "y", "s", "t", "e", "r", "y">>
    /\ ret_books[2].primary_genre = <<"C", "l", "a", "s", "s", "i", "c", " ", "W", "h", "o", "d", "u", "n", "i", "t">>

\* C9: a book whose classification request succeeds gets genre_confidence
\* high; a book whose request raises gets the keyword fallback's genre,
\* genre_confidence low and the error in genre_error.
C9_ConfidenceBookkeeping ==
    \A k \in 1..Len(categorized_books) :
        LET book == categorized_books[k] IN
        /\ remote_log[k] \in {"message", "legacy_text"} =>
               book.genre_confidence = <<"h", "i", "g", "h">>
        /\ remote_log[k] = "api_error" =>
               /\ book.genre = _fallback_categorization(book.title, book.author)
               /\ book.genre_confidence = <<"l", "o", "w">>
               /\ "genre_error" \in DOMAIN book

\* the square of the distance between two corners
C22_SquaredDistance(p, q) ==
    (q[1] - p[1]) * (q[1] - p[1]) + (q[2] - p[2]) * (q[2] - p[2])

\* width (corner 0 to corner 1) or height (corner 1 to corner 2) under 10
C22_TooSmall(box) ==
    \/ C22_SquaredDistance(box_points(box)[1], box_points(box)[2]) < 100
    \/ C22_SquaredDistance(box_points(box)[2], box_points(box)[3]) < 100

\* the regions the loop has gone through
C22_Processed == 1..(box_i - 1)

\* the records that carry the number of region k
C22_RecordsOf(books, k) == {j \in 1..Len(books) : books[j].book_number = k}

\* C22: detect_books emits at most one record per region: one, with a
\* non-empty crop, for every region at least 10 wide and 10 high, and none
\* for a region narrower or lower than 10, so that the regions not emitted
\* are as many as the too-small regions.
C22_OneRecordPerAcceptedRegion ==
    pc \in {"detect", "categorize", "done"} =>
        /\ \A k \in C22_Processed :
               Cardinality(C22_RecordsOf(detected_books, k)) =
                   IF C22_TooSmall(boxes[k]) THEN 0 ELSE 1
        /\ \A j \in 1..Len(detected_books) :
               LET c == detected_books[j].crop_coordinates
               IN  c.x_min < c.x_max /\ c.y_min < c.y_max
        /\ pc = "done" =>
               /\ \A k \in 1..Len(boxes) :
                      Cardinality(C22_RecordsOf(ret_books, k)) =
                          IF C22_TooSmall(boxes[k]) THEN 0 ELSE 1
               /\ Len(boxes) - Len(ret_books) =
                      Cardinality({k \in 1..Len(boxes) : C22_TooSmall(boxes[k])})

\* a too-small box and a box turned by 90 degrees: one record, of the second
C22_Witness ==
    /\ pc = "done"
    /\ Len(boxes) = 2
    /\ C22_TooSmall(boxes[1])
    /\ Len(ret_books) = 1
    /\ ret_books[1].book_number = 2
    /\ ret_books[1].angle = 90
    /\ ret_books[1].crop_coordinates =
           [x_min |-> 0, y_min |-> 135, x_max |-> 30, y_max |-> 165]

\* the record's region is an upright rectangle whose first edge runs along +x
C23_Unrotated(book) ==
    LET p == book.bbox_coordinates
    IN  /\ p[2][2] = p[1][2] /\ p[2][1] > p[1][1]
        /\ p[3][1] = p[2][1] /\ p[3][2] > p[2][2]
        /\ p[4][1] = p[1][1] /\ p[4][2] = p[3][2]

\* C23: the record of an unrotated, axis-aligned region has angle 0, the
\* box's side lengths as width and height, and the box itself, in image
\* coordinates, as crop bounds, wherever the box lies in the image.
C23_CropIsOriginalBox ==
    \A j \in 1..Len(detected_books) :
        LET book == detected_books[j]
            p    == book.bbox_coordinates
        IN  C23_Unrotated(book) =>
                /\ book.angle = 0
                /\ book.width = p[2][1] - p[1][1]
                /\ book.height = p[3][2] - p[2][2]
                /\ book.crop_coordinates =
                       [x_min |-> p[1][1], y_min |-> p[1][2],
                        x_max |-> p[3][1], y_max |-> p[3][2]]

\* the three fields categorize_books sets
GenreFields == {"genre", "genre_confidence", "genre_error"}

\* the list detect_books hands to categorize_books: the sorted records
C26_Input == IF pc = "detect" THEN sort_books(detected_books) ELSE detected_books

\* the two records agree on every field outside GenreFields
C26_SameOtherFields(before, after) ==
    /\ DOMAIN after \ GenreFields = DOMAIN before \ GenreFields
    /\ \A f \in DOMAIN before \ GenreFields : after[f] = before[f]

\* the step is part of a call of categorize_books
C26_InCategorizer ==
    /\ categorizer # "none"
    /\ \/ LoopDone /\ detected_books # <<>>
       \/ pc = "categorize"

\* C26: categorize_books returns one record per input record, in the same
\* order, that differs from it in genre, genre_confidence and genre_error
\* only, and the records the caller passed in are as they were, with a
\* client and without one.
C26_CategorizerKeepsInput ==
    [][ C26_InCategorizer =>
          /\ detected_books' = C26_Input
          /\ pc' = "done" =>
                /\ Len(ret_books') = Len(C26_Input)
                /\ \A k \in 1..Len(C26_Input) :
                      C26_SameOtherFields(C26_Input[k], ret_books'[k]) ]_vars

\* the part of C26 about the returned list alone
C26_ReturnedRecords ==
    [][ (C26_InCategorizer /\ pc' = "done") =>
          /\ Len(ret_books') = Len(C26_Input)
          /\ \A k \in 1..Len(C26_Input) :
                C26_SameOtherFields(C26_Input[k], ret_books'[k]) ]_vars

\* the part of C26 about the caller's records when there is a client
C26_InputKeptWithClient ==
    [][ (C26_InCategorizer /\ categorizer = "ready") =>
          detected_books' = C26_Input ]_vars

---------------------------------------------------------------------------
(* BookMetadataService: the two lookups and get_book_metadata.             *)
(*                                                                         *)
(* A Python value is a tagged record, so that None, '', 0 and [] are       *)
(* distinct values that are all falsy.  A dict is a function from its keys *)
(* to such values; a key the dict does not hold is not in its DOMAIN.      *)
(* Ratings are in hundredths (4.25 is 425).                                *)

None == [t |-> "none"]

Str(s) == [t |-> "str", v |-> s]

Num(n) == [t |-> "num", v |-> n]

List(l) == [t |-> "list", v |-> l]

Dict(d) == [t |-> "dict", v |-> d]

\* bool(x)
truthy(x) ==
    CASE x.t = "none" -> FALSE
      [] x.t = "str"  -> x.v # ""
      [] x.t = "num"  -> x.v # 0
      [] x.t = "list" -> x.v # <<>>
      [] x.t = "dict" -> DOMAIN x.v # {}

\* d.get(key, default)
get_default(d, key, default) == IF key \in DOMAIN d THEN d[key] ELSE default

\* l[:n]
take(l, n) == IF Len(l) <= n THEN l ELSE SubSeq(l, 1, n)

\* sep.join(l)
RECURSIVE join(_, _)
join(sep, l) ==
    IF l = <<>> THEN ""
    ELSE IF Len(l) = 1 THEN l[1]
    ELSE l[1] \o sep \o join(sep, Tail(l))

Digits == <<"0", "1", "2", "3", "4", "5", "6", "7", "8", "9">>

\* str(n) of a natural number
RECURSIVE str_int(_)
str_int(n) ==
    IF n < 10 THEN Digits[n + 1]
    ELSE str_int(n \div 10) \o Digits[(n % 10) + 1]

\* round(float(x), 1) on hundredths: to the nearest tenth, an exact tie
\* (x.25, x.75) to the even tenth
round_rating(h) ==
    LET q == h \div 10
        r == h % 10
    IN  IF r < 5 THEN q * 10
        ELSE IF r > 5 THEN (q + 1) * 10
        ELSE IF q % 2 = 0 THEN q * 10 ELSE (q + 1) * 10

Raised(error) == [raised |-> TRUE, error |-> error]

\* the last identifier of the given type, as the loop leaves it
last_identifier(ids, type) ==
    LET hits == {i \in 1..Len(ids) : ids[i].type = type} IN
    IF hits = {} THEN None
    ELSE Str(ids[CHOOSE i \in hits : \A j \in hits : j <= i].identifier)

\* image_links.get('large') or ... or image_links.get('thumbnail')
largest_cover(image_links) ==
    LET large == get_default(image_links, "large", None)
        medium == get_default(image_links, "medium", None)
        small == get_default(image_links, "small", None)
        thumbnail == get_default(image_links, "thumbnail", None)
    IN  IF truthy(large) THEN large
        ELSE IF truthy(medium) THEN medium
        ELSE IF truthy(small) THEN small
        ELSE thumbnail

\* [author] if author else []
author_list(author) == IF truthy(author) THEN List(<<author.v>>) ELSE List(<<>>)

\* the result dict search_google_books builds from items[0]
google_result(title, author, item) ==
    LET book == item.volumeInfo
        ids == get_default(book, "industryIdentifiers", <<>>)
        image_links == get_default(book, "imageLinks", <<>>)
        result ==
            [ title |-> get_default(book, "title", Str(title)),
              authors |-> get_default(book, "authors", author_list(author)),
              published_date |-> get_default(book, "publishedDate", Str("")),
              description |-> get_default(book, "description", Str("")),
              page_count |-> get_default(book, "pageCount", Num(0)),
              categories |-> get_default(book, "categories", List(<<>>)),
              language |-> get_default(book, "language", Str("en")),
              isbn_10 |-> last_identifier(ids, "ISBN_10"),
              isbn_13 |-> last_identifier(ids, "ISBN_13"),
              google_books_id |-> Str(item.id) ]
        with_cover ==
            IF DOMAIN image_links # {} /\ truthy(largest_cover(image_links))
            THEN Put(result, "cover_url", largest_cover(image_links))
            ELSE result
    IN  IF "averageRating" \in DOMAIN book
        THEN Put(Put(with_cover, "average_rating", book.averageRating),
                 "ratings_count", get_default(book, "ratingsCount", Num(0)))
        ELSE with_cover

\* what the statements inside the try of search_google_books come to; resp
\* is the outcome of the request:
\*   connection_error  session.get raised
\*   http_error        raise_for_status raised
\*   invalid_json      response.json raised
\*   json              the decoded body, resp.data
google_lookup(title, author, resp) ==
    CASE resp.kind = "connection_error" -> Raised("ConnectionError")
      [] resp.kind = "http_error" -> Raised("HTTPError")
      [] resp.kind = "invalid_json" -> Raised("JSONDecodeError")
      [] resp.kind = "json" ->
            IF get_default(resp.data, "totalItems", 0) > 0
            THEN IF "items" \notin DOMAIN resp.data THEN Raised("KeyError")
                 ELSE IF resp.data.items = <<>> THEN Raised("IndexError")
                 ELSE IF {"volumeInfo", "id"} \subseteq DOMAIN resp.data.items[1]
                 THEN Returned(Dict(google_result(title, author, resp.data.items[1])))
                 ELSE Raised("KeyError")
            ELSE Returned(None)

\* a search that lets the exception of its request through
search_google_raising(title, author, resp) == google_lookup(title, author, resp)

\* try: ... except Exception: log; return None
search_google_books(title, author, resp) ==
    LET r == google_lookup(title, author, resp) IN
    IF r.raised THEN Returned(None) ELSE r

\* the last isbn of the given length, as the loop leaves it
last_isbn(isbns, n) ==
    LET hits == {i \in 1..Len(isbns) : Len(isbns[i]) = n} IN
    IF hits = {} THEN None
    ELSE Str(isbns[CHOOSE i \in hits : \A j \in hits : j <= i])

open_library_covers == "https://covers.openlibrary.org/b"

\* str(book.get('first_publish_year', ''))
year_text(book) ==
    IF "first_publish_year" \in DOMAIN book
    THEN Str(str_int(book.first_publish_year.v))
    ELSE Str("")

\* the result dict search_open_library builds from docs[0]
openlib_result(title, author, book) ==
    LET cover_id == get_default(book, "cover_i", None)
        result ==
            [ title |-> get_default(book, "title", Str(title)),
              authors |-> get_default(book, "author_name", author_list(author)),
              published_date |-> year_text(book),
              isbn_10 |-> last_isbn(get_default(book, "isbn", <<>>), 10),
              isbn_13 |-> last_isbn(get_default(book, "isbn", <<>>), 13),
              open_library_id |-> cover_id,
              subjects |-> List(take(get_default(book, "subject", List(<<>>)).v, 5)) ]
        with_cover ==
            IF truthy(cover_id)
            THEN Put(result, "cover_url",
                     Str(open_library_covers \o "/id/" \o str_int(cover_id.v) \o "-L.jpg"))
            ELSE result
    IN  IF "ratings_average" \in DOMAIN book
        THEN Put(Put(with_cover, "average_rating", book.ratings_average),
                 "ratings_count", get_default(book, "ratings_count", Num(0)))
        ELSE with_cover

\* the statements inside the try of search_open_library
openlib_lookup(title, author, resp) ==
    CASE resp.kind = "connection_error" -> Raised("ConnectionError")
      [] resp.kind = "http_error" -> Raised("HTTPError")
      [] resp.kind = "invalid_json" -> Raised("JSONDecodeError")
      [] resp.kind = "json" ->
            IF get_default(resp.data, "numFound", 0) > 0
            THEN IF "docs" \notin DOMAIN resp.data THEN Raised("KeyError")
                 ELSE IF resp.data.docs = <<>> THEN Raised("IndexError")
                 ELSE Returned(Dict(openlib_result(title, author, resp.data.docs[1])))
            ELSE Returned(None)

\* try: ... except Exception: log; return None
search_open_library(title, author, resp) ==
    LET r == openlib_lookup(title, author, resp) IN
    IF r.raised THEN Returned(None) ELSE r

\* the dict get_book_metadata starts with
initial_metadata(title, author) ==
    [ title |-> Str(title),
      author |-> IF truthy(author) THEN author ELSE Str("Unknown"),
      cover_url |-> None,
      average_rating |-> None,
      ratings_count |-> Num(0),
      description |-> Str(""),
      published_date |-> Str(""),
      page_count |-> Num(0),
      isbn_10 |-> None,
      isbn_13 |-> None,
      categories |-> List(<<>>),
      subjects |-> List(<<>>),
      language |-> Str("en"),
      source |-> Str("unknown") ]

\* metadata.update(other)
update(metadata, other) ==
    [k \in DOMAIN metadata \cup DOMAIN other |->
        IF k \in DOMAIN other THEN other[k] ELSE metadata[k]]

\* a merge in which Open Library's value replaces the one held
fill_overwriting(metadata, openlib) == update(metadata, openlib)

\* for key, value in openlib_data.items():
\*     if key not in metadata or not metadata[key]: metadata[key] = value
fill_gaps(metadata, openlib) ==
    [k \in DOMAIN metadata \cup DOMAIN openlib |->
        IF k \in DOMAIN openlib /\ (k \notin DOMAIN metadata \/ ~truthy(metadata[k]))
        THEN openlib[k]
        ELSE metadata[k]]

\* if not metadata.get('cover_url') and openlib_data.get('cover_url'): ...
cover_from_openlib(metadata, openlib) ==
    IF /\ ~truthy(get_default(metadata, "cover_url", None))
       /\ truthy(get_default(openlib, "cover_url", None))
    THEN Put(Put(metadata, "cover_url", openlib.cover_url),
             "source", Str("open_library"))
    ELSE metadata

\* the clean-up of the merged record: author from up to 3 authors, at most
\* 5 categories and subjects, the rating rounded to one decimal
format_metadata(metadata) ==
    LET authors == get_default(metadata, "authors", None)
        with_author ==
            IF authors.t = "list"
            THEN Put(metadata, "author", Str(join(", ", take(authors.v, 3))))
            ELSE metadata
        categories == get_default(with_author, "categories", None)
        with_categories ==
            IF categories.t = "list"
            THEN Put(with_author, "categories", List(take(categories.v, 5)))
            ELSE with_author
        subjects == get_default(with_categories, "subjects", None)
        with_subjects ==
            IF subjects.t = "list"
            THEN Put(with_categories, "subjects", List(take(subjects.v, 5)))
            ELSE with_categories
        rating == get_default(with_subjects, "average_rating", None)
    IN  IF truthy(rating)
        THEN Put(with_subjects, "average_rating", Num(round_rating(rating.v)))
        ELSE with_subjects

\* google and openlib are what the two searches returned
get_book_metadata(title, author, google, openlib) ==
    IF google.raised THEN google
    ELSE IF openlib.raised THEN openlib
    ELSE
    LET google_data == google.value
        openlib_data == openlib.value
        with_google ==
            IF truthy(google_data)
            THEN Put(update(initial_metadata(title, author), google_data.v),
                     "source", Str("google_books"))
            ELSE initial_metadata(title, author)
        with_openlib ==
            IF truthy(openlib_data)
            THEN cover_from_openlib(fill_gaps(with_google, openlib_data.v),
                                    openlib_data.v)
            ELSE with_google
    IN  Returned(format_metadata(with_openlib))

---------------------------------------------------------------------------
(* One call of get_book_metadata: the outcomes of the two requests are     *)
(* drawn, then the record is computed.                                     *)

MetadataTitles == {"Dune"}

MetadataAuthors == {None, Str(""), Str("Frank Herbert")}

RequestFailures ==
    { [kind |-> "connection_error"], [kind |-> "http_error"], [kind |-> "invalid_json"] }

GoogleVolumes ==
    { [ title |-> Str("Dune"),
        authors |-> List(<<"Frank Herbert", "Brian Herbert", "Kevin J. Anderson", "Ed.">>),
        publishedDate |-> Str("1965-08"),
        description |-> Str("A desert planet."),
        pageCount |-> Num(412),
        categories |-> List(<<"Fiction", "Science Fiction", "Space Opera",
                              "Classics", "Adventure", "Politics">>),
        language |-> Str("en"),
        industryIdentifiers |->
            << [type |-> "ISBN_10", identifier |-> "0441013597"],
               [type |-> "OTHER", identifier |-> "UOM:3901"],
               [type |-> "ISBN_13", identifier |-> "9780441013593"] >>,
        imageLinks |-> [ thumbnail |-> Str("http://books.google.com/t.jpg"),
                         small |-> Str("http://books.google.com/s.jpg") ],
        averageRating |-> Num(425),
        ratingsCount |-> Num(12) ],
      [ title |-> Str("Dune"),
        categories |-> List(<<"Fiction">>),
        imageLinks |-> [ large |-> Str("http://books.google.com/l.jpg") ],
        averageRating |-> Num(450) ],
      [ title |-> Str("Dune"),
        imageLinks |-> [ thumbnail |-> Str("") ],
        averageRating |-> Num(0) ],
      [ description |-> Str("") ] }

GoogleResponses ==
    RequestFailures
    \cup { [kind |-> "json", data |-> [totalItems |-> 0]],
           [kind |-> "json", data |-> [totalItems |-> 1]],
           [kind |-> "json", data |-> [totalItems |-> 1, items |-> << [id |-> "g0"] >>]] }
    \cup { [kind |-> "json",
            data |-> [totalItems |-> 3, items |-> << [id |-> "g1", volumeInfo |-> v] >>]] :
           v \in GoogleVolumes }

OpenLibDocs ==
    { [ title |-> Str("Dune (Dune Chronicles)"),
        author_name |-> List(<<"Frank Herbert", "F. Herbert">>),
        first_publish_year |-> Num(1965),
        isbn |-> <<"0441013597", "044101359X", "9780340960196", "978">>,
        cover_i |-> Num(11481354),
        ratings_average |-> Num(437),
        ratings_count |-> Num(250),
        subject |-> List(<<"Dune (Imaginary place)", "Fiction", "Science fiction",
                           "Ecology", "Deserts", "Messiahs">>) ],
      [ title |-> Str("Dune"), author_name |-> List(<<"Frank Herbert">>) ],
      [ cover_i |-> Num(42) ],
      [ cover_i |-> Num(0), ratings_average |-> Num(380) ] }

OpenLibResponses ==
    RequestFailures
    \cup { [kind |-> "json", data |-> [numFound |-> 0]],
           [kind |-> "json", data |-> [numFound |-> 2]] }
    \cup { [kind |-> "json", data |-> [numFound |-> 2, docs |-> <<d>>]] :
           d \in OpenLibDocs }

InitMetadata ==
    /\ md_title \in MetadataTitles
    /\ md_author \in MetadataAuthors
    /\ google_response \in GoogleResponses
    /\ openlib_response \in OpenLibResponses
    /\ metadata_ret = NoCall
    /\ IdleDetect
    /\ IdleLimit
    /\ IdlePref
    /\ IdleRec
    /\ IdleApi

GetBookMetadata ==
    /\ google_response # NoCall
    /\ metadata_ret = NoCall
    /\ metadata_ret' =
          get_book_metadata(md_title, md_author,
              search_google_books(md_title, md_author, google_response),
              search_open_library(md_title, md_author, openlib_response))
    /\ UNCHANGED <<md_title, md_author, google_response, openlib_response,
                   detectVars, limitVars, prefVars, recVars, apiVars>>

NextMetadata == GetBookMetadata

SpecMetadata == InitMetadata /\ [][NextMetadata]_vars

\* what the two searches of the call returned
google_data == search_google_books(md_title, md_author, google_response).value

openlib_data == search_open_library(md_title, md_author, openlib_response).value

MetadataReturned == metadata_ret # NoCall /\ ~metadata_ret.raised

metadata == metadata_ret.value

---------------------------------------------------------------------------
(* Properties of get_book_metadata, under SpecMetadata                     *)

\* C11 as claimed: whenever Google Books succeeded and gave a truthy value
\* for a field, the returned record holds exactly that value for the field.
C11_GoogleValueReturned ==
    (MetadataReturned /\ truthy(google_data)) =>
        \A k \in DOMAIN google_data.v :
            truthy(google_data.v[k]) => metadata[k] = google_data.v[k]

\* C11 amended: whenever Google Books succeeded and gave a truthy value for
\* a field, the returned record holds that value as the clean-up leaves it
\* (the first 5 categories, the rating rounded to one decimal, every other
\* field unchanged); no value of Open Library takes its place.
C11_GoogleValueKept ==
    (MetadataReturned /\ truthy(google_data)) =>
        \A k \in DOMAIN google_data.v :
            truthy(google_data.v[k]) =>
                metadata[k] =
                    CASE k = "categories" -> List(take(google_data.v[k].v, 5))
                      [] k = "average_rating" -> Num(round_rating(google_data.v[k].v))
                      [] OTHER -> google_data.v[k]

\* both sources succeeded and disagree on title, authors, date, ISBN, cover
\* and rating; the record holds Google's
C11_Witness ==
    /\ MetadataReturned
    /\ truthy(google_data)
    /\ truthy(openlib_data)
    /\ google_data.v.title = Str("Dune")
    /\ openlib_data.v.title = Str("Dune (Dune Chronicles)")
    /\ get_default(google_data.v, "average_rating", None) = Num(450)
    /\ get_default(openlib_data.v, "average_rating", None) = Num(437)
    /\ metadata.title = Str("Dune")
    /\ metadata.average_rating = Num(450)
    /\ metadata.cover_url = Str("http://books.google.com/l.jpg")

\* C12: when Open Library succeeded with a cover_url and Google Books gave
\* none (absent, or present without a cover), the returned cover_url is
\* Open Library's and source is "open_library".
C12_CoverFromOpenLibrary ==
    ( /\ MetadataReturned
      /\ truthy(openlib_data)
      /\ truthy(get_default(openlib_data.v, "cover_url", None))
      /\ ~(truthy(google_data) /\ truthy(get_default(google_data.v, "cover_url", None))) )
    => /\ metadata.cover_url = openlib_data.v.cover_url
       /\ metadata.source = Str("open_library")

\* C13: a request that fails (connection, HTTP status, undecodable body) or
\* a body that cannot be parsed makes the search return None without
\* raising; get_book_metadata does not raise; with both searches absent
\* the record is exactly the initial one, source "unknown".
C13_FailureGivesDefaults ==
    LET google == search_google_books(md_title, md_author, google_response)
        openlib == search_open_library(md_title, md_author, openlib_response)
    IN  /\ google_lookup(md_title, md_author, google_response).raised =>
               google = Returned(None)
        /\ openlib_lookup(md_title, md_author, openlib_response).raised =>
               openlib = Returned(None)
        /\ metadata_ret # NoCall =>
               /\ ~metadata_ret.raised
               /\ (google = Returned(None) /\ openlib = Returned(None)) =>
                      metadata =
                          [ title |-> Str(md_title),
                            author |-> IF md_author \in {None, Str("")}
                                       THEN Str("Unknown") ELSE md_author,
                            cover_url |-> None,
                            average_rating |-> None,
                            ratings_count |-> Num(0),
                            description |-> Str(""),
                            published_date |-> Str(""),
                            page_count |-> Num(0),
                            isbn_10 |-> None,
                            isbn_13 |-> None,
                            categories |-> List(<<>>),
                            subjects |-> List(<<>>),
                            language |-> Str("en"),
                            source |-> Str("unknown") ]

\* the Google request could not connect, Open Library's body was not JSON
C13_Witness ==
    /\ google_response = [kind |-> "connection_error"]
    /\ openlib_response = [kind |-> "invalid_json"]
    /\ MetadataReturned
    /\ metadata.source = Str("unknown")
    /\ metadata.cover_url = None

---------------------------------------------------------------------------
(* BookMetadataService._rate_limit and the requests of the two searches.   *)
(* Time is the clock time.time() reads, in milliseconds; it advances in    *)
(* steps of Tick while a caller computes, sleeps or waits for a response.  *)
(* A caller is a thread of control that runs lookups on the one            *)
(* metadata_service object.                                                *)

min_request_interval == 100

Tick == 50

\* the clock when the service object is built: any time of day is at
\* least one interval after the initial last_request_time 0
StartTime == 1000

MaxTime == 1250

MaxRequests == 3

Services == {"google_books", "open_library"}

\* a limiter that never sleeps
sleep_nothing(since) == 0

\* the argument of time.sleep
sleep_seconds(since) == min_request_interval - since

InitRateLimit ==
    /\ now = StartTime
    /\ last_request_time = 0
    /\ rl_pc = [t \in Callers |-> "idle"]
    /\ rl_service = [t \in Callers |-> ""]
    /\ current_time = [t \in Callers |-> 0]
    /\ time_since_last = [t \in Callers |-> 0]
    /\ wake_time = [t \in Callers |-> 0]
    /\ request_log = <<>>
    /\ IdleDetect
    /\ IdleMeta
    /\ IdlePref
    /\ IdleRec
    /\ IdleApi

\* the lookups under way
busy == {t \in Callers : rl_pc[t] # "idle"}

\* search_google_books or search_open_library is called
CallSearch(t) ==
    /\ rl_pc[t] = "idle"
    /\ Len(request_log) + Cardinality(busy) < MaxRequests
    /\ \E service \in Services : rl_service' = [rl_service EXCEPT ![t] = service]
    /\ rl_pc' = [rl_pc EXCEPT ![t] = "clock"]
    /\ UNCHANGED <<now, last_request_time, current_time, time_since_last,
                   wake_time, request_log, detectVars, metaVars, prefVars, recVars, apiVars>>

\* current_time = time.time()
ReadClock(t) ==
    /\ rl_pc[t] = "clock"
    /\ current_time' = [current_time EXCEPT ![t] = now]
    /\ rl_pc' = [rl_pc EXCEPT ![t] = "since"]
    /\ UNCHANGED <<now, last_request_time, rl_service, time_since_last,
                   wake_time, request_log, detectVars, metaVars, prefVars, recVars, apiVars>>

\* time_since_last = current_time - self.last_request_time, and the test:
\* below the interval the caller goes to sleep
ReadLast(t) ==
    /\ rl_pc[t] = "since"
    /\ LET since == current_time[t] - last_request_time IN
       /\ time_since_last' = [time_since_last EXCEPT ![t] = since]
       /\ IF since < min_request_interval
          THEN /\ wake_time' = [wake_time EXCEPT ![t] = now + sleep_seconds(since)]
               /\ rl_pc' = [rl_pc EXCEPT ![t] = "sleep"]
          ELSE /\ rl_pc' = [rl_pc EXCEPT ![t] = "stamp"]
               /\ UNCHANGED wake_time
    /\ UNCHANGED <<now, last_request_time, rl_service, current_time,
                   request_log, detectVars, metaVars, prefVars, recVars, apiVars>>

\* time.sleep returns, no earlier than asked
EndSleep(t) ==
    /\ rl_pc[t] = "sleep"
    /\ now >= wake_time[t]
    /\ rl_pc' = [rl_pc EXCEPT ![t] = "stamp"]
    /\ UNCHANGED <<now, last_request_time, rl_service, current_time,
                   time_since_last, wake_time, request_log, detectVars, metaVars, prefVars, recVars, apiVars>>

\* self.last_request_time = time.time(), and the request goes out under
\* that call time
SendRequest(t) ==
    /\ rl_pc[t] = "stamp"
    /\ last_request_time' = now
    /\ request_log' = Append(request_log, [service |-> rl_service[t], time |-> now])
    /\ rl_pc' = [rl_pc EXCEPT ![t] = "request"]
    /\ UNCHANGED <<now, rl_service, current_time, time_since_last, wake_time,
                   detectVars, metaVars, prefVars, recVars, apiVars>>

\* the response (or the error) arrives and the search returns
SearchReturns(t) ==
    /\ rl_pc[t] = "request"
    /\ rl_pc' = [rl_pc EXCEPT ![t] = "idle"]
    /\ current_time' = [current_time EXCEPT ![t] = 0]
    /\ time_since_last' = [time_since_last EXCEPT ![t] = 0]
    /\ wake_time' = [wake_time EXCEPT ![t] = 0]
    /\ UNCHANGED <<now, last_request_time, rl_service, request_log,
                   detectVars, metaVars, prefVars, recVars, apiVars>>

\* time passes
TimePasses ==
    /\ now + Tick <= MaxTime
    /\ now' = now + Tick
    /\ UNCHANGED <<last_request_time, rl_pc, rl_service, current_time,
                   time_since_last, wake_time, request_log, detectVars, metaVars, prefVars, recVars, apiVars>>

Lookup(t) ==
    \/ CallSearch(t)
    \/ ReadClock(t)
    \/ ReadLast(t)
    \/ EndSleep(t)
    \/ SendRequest(t)
    \/ SearchReturns(t)

\* one caller: every lookup ends before the next begins
NextRateLimit == Lookup(1) \/ TimePasses

SpecRateLimit == InitRateLimit /\ [][NextRateLimit]_vars

\* two callers on the shared object, their steps interleaved
NextConcurrent == (\E t \in Callers : Lookup(t)) \/ TimePasses

SpecConcurrent == InitRateLimit /\ [][NextConcurrent]_vars

---------------------------------------------------------------------------
(* Properties of the rate limiter                                          *)

\* any two requests of the log to the same service are at least the
\* minimum interval apart
SameServiceSpaced ==
    \A i, j \in 1..Len(request_log) :
        (i < j /\ request_log[i].service = request_log[j].service) =>
            request_log[j].time - request_log[i].time >= min_request_interval

\* C14: with one caller, requests to the same service go out at least
\* 100 ms apart: a caller that finds less than the interval elapsed sleeps
\* until the interval since the last recorded call is over, and the call
\* time of the request it then sends is recorded as the last.
C14_SequentialRequestsSpaced ==
    /\ SameServiceSpaced
    /\ rl_pc[1] = "sleep" =>
           /\ wake_time[1] - current_time[1] >= min_request_interval - time_since_last[1]
           /\ wake_time[1] >= last_request_time + min_request_interval
    /\ request_log # <<>> =>
           last_request_time = request_log[Len(request_log)].time

\* two requests to one service went out 100 ms apart and the caller of a
\* third sleeps out the rest of the interval
C14_Witness ==
    /\ Len(request_log) = 2
    /\ request_log[1].service = request_log[2].service
    /\ request_log[2].time = request_log[1].time + min_request_interval
    /\ rl_pc[1] = "sleep"
    /\ rl_service[1] = request_log[1].service
    /\ time_since_last[1] = Tick
    /\ wake_time[1] = last_request_time + min_request_interval

\* C15: with two callers running lookups in parallel, under every
\* interleaving of their steps the requests to one service still go out
\* at least the minimum interval apart.
C15_ConcurrentRequestsSpaced == SameServiceSpaced

---------------------------------------------------------------------------
(* analyze_books_with_preferences: the filter of the detected records by   *)
(* the user's genres.  A match_score is the fraction num / den.            *)

\* the test of the inner loop, equality only
genres_match_equal(user_genre, book_genre) == lower(user_genre) = lower(book_genre)

\* user_genre.lower() in book_genre.lower() or
\* book_genre.lower() in user_genre.lower() or
\* user_genre.lower() == book_genre.lower()
genres_match(user_genre, book_genre) ==
    \/ contains(lower(user_genre), lower(book_genre))
    \/ contains(lower(book_genre), lower(user_genre))
    \/ lower(user_genre) = lower(book_genre)

\* [g for g in [primary_genre, secondary_genre, tertiary_genre] if g]
book_genres(book) ==
    SelectSeq(<< strip(Get(book, "primary_genre")),
                 strip(Get(book, "secondary_genre")),
                 strip(Get(book, "tertiary_genre")) >>,
              LAMBDA g : g # <<>>)

\* the list the two loops build: a user genre is appended once for each of
\* its entries in selected that some genre of the book matches
matching_genres(book, selected) ==
    SelectSeq(selected,
              LAMBDA user_genre :
                  \E i \in 1..Len(book_genres(book)) :
                      genres_match(user_genre, book_genres(book)[i]))

\* list(set(...)): the distinct entries, in no particular order
distinct(l) == {l[i] : i \in 1..Len(l)}

\* the record with the matching info added
with_match_info(book, selected) ==
    Put(Put(book, "matching_genres", distinct(matching_genres(book, selected))),
        "match_score",
        [num |-> Len(matching_genres(book, selected)), den |-> Len(selected)])

\* a.match_score >= b.match_score
score_ge(a, b) == a.match_score.num * b.match_score.den >= b.match_score.num * a.match_score.den

\* sort(key=match_score, reverse=True) is stable: a record goes after every
\* record whose score is not less
RECURSIVE insert_by_score(_, _)
insert_by_score(sorted, book) ==
    IF sorted = <<>> THEN <<book>>
    ELSE IF score_ge(Head(sorted), book)
         THEN <<Head(sorted)>> \o insert_by_score(Tail(sorted), book)
         ELSE <<book>> \o sorted

RECURSIVE sort_by_score(_)
sort_by_score(books) ==
    IF books = <<>> THEN <<>>
    ELSE insert_by_score(sort_by_score(SubSeq(books, 1, Len(books) - 1)),
                         books[Len(books)])

\* the loop over all_books
RECURSIVE filter_books(_, _)
filter_books(books, selected) ==
    IF books = <<>> THEN <<>>
    ELSE LET rest == filter_books(Tail(books), selected) IN
         IF matching_genres(Head(books), selected) # <<>>
         THEN <<with_match_info(Head(books), selected)>> \o rest
         ELSE rest

\* records as the parser leaves them: genres stripped, missing ones empty
DetectedRecords ==
    { [title |-> <<"D", "u", "n", "e">>, primary_genre |-> <<"S", "c", "i", "e", "n", "c", "e", " ", "F", "i", "c", "t", "i", "o", "n">>,
       secondary_genre |-> <<>>, tertiary_genre |-> <<>>],
      [title |-> <<"N", "e", "u", "r", "o", "m", "a", "n", "c", "e", "r">>, primary_genre |-> <<"S", "c", "i", "-", "F", "i">>,
       secondary_genre |-> <<"C", "y", "b", "e", "r", "p", "u", "n", "k">>, tertiary_genre |-> <<>>],
      [title |-> <<"T", "h", "e", " ", "H", "o", "b", "b", "i", "t">>, primary_genre |-> <<"F", "a", "n", "t", "a", "s", "y">>,
       secondary_genre |-> <<"A", "d", "v", "e", "n", "t", "u", "r", "e">>, tertiary_genre |-> <<"C", "l", "a", "s", "s", "i", "c">>],
      [title |-> <<"W", "o", "l", "f", " ", "H", "a", "l", "l">>, primary_genre |-> <<"H", "i", "s", "t", "o", "r", "i", "c", "a", "l", " ", "F", "i", "c", "t", "i", "o", "n">>,
       secondary_genre |-> <<"D", "r", "a", "m", "a">>, tertiary_genre |-> <<>>],
      [title |-> <<>>, primary_genre |-> <<>>,
       secondary_genre |-> <<>>, tertiary_genre |-> <<>>] }

MaxBooks == 2

MaxSelected == 2

UserGenres == { <<"S", "c", "i", "-", "F", "i">>, <<"S", "c", "i", "e", "n", "c", "e", " ", "F", "i", "c", "t", "i", "o", "n">>, <<"f", "a", "n", "t", "a", "s", "y">>, <<"F", "i", "c", "t", "i", "o", "n">>, <<"R", "o", "m", "a", "n", "c", "e">>, <<>> }

\* the lists of up to n distinct elements of a set
RECURSIVE lists_without_repeats(_, _)
lists_without_repeats(S, n) ==
    IF n = 0 THEN {<<>>}
    ELSE LET shorter == lists_without_repeats(S, n - 1) IN
         shorter \cup UNION { {Append(l, x) : x \in S \ {l[i] : i \in 1..Len(l)}} :
                               l \in shorter }

\* the lists of up to n elements of a set
RECURSIVE lists_up_to(_, _)
lists_up_to(S, n) ==
    IF n = 0 THEN {<<>>}
    ELSE LET shorter == lists_up_to(S, n - 1) IN
         shorter \cup {Append(l, x) : l \in shorter, x \in S}

InitPreferences ==
    /\ all_books \in lists_without_repeats(DetectedRecords, MaxBooks) \ {<<>>}
    /\ selected_genres \in lists_up_to(UserGenres, MaxSelected)
    /\ filtered_books = <<>>
    /\ pref_pc = "filter"
    /\ IdleDetect
    /\ IdleMeta
    /\ IdleLimit
    /\ IdleRec
    /\ IdleApi

\* all_books after the loop: `book` in the loop is the record of all_books
\* itself, so a matching record carries its matching info in both lists
RECURSIVE mark_matching(_, _)
mark_matching(books, selected) ==
    IF books = <<>> THEN <<>>
    ELSE << IF matching_genres(Head(books), selected) # <<>>
            THEN with_match_info(Head(books), selected)
            ELSE Head(books) >>
         \o mark_matching(Tail(books), selected)

\* the filter loop and the sort that follows it; the statistics that follow
\* read the records and write none
FilterByPreferences ==
    /\ pref_pc = "filter"
    /\ filtered_books' = sort_by_score(filter_books(all_books, selected_genres))
    /\ all_books' = mark_matching(all_books, selected_genres)
    /\ pref_pc' = "done"
    /\ UNCHANGED <<selected_genres, detectVars, metaVars, limitVars, recVars, apiVars>>

NextPreferences == FilterByPreferences

SpecPreferences == InitPreferences /\ [][NextPreferences]_vars

---------------------------------------------------------------------------
(* Properties of the preference filter, under SpecPreferences              *)

Filtered == pref_pc = "done"

\* the genres a record holds
C16_RecordGenres(book) ==
    {g \in {book.primary_genre, book.secondary_genre, book.tertiary_genre} : g # <<>>}

\* the literal test between a user genre P and a record genre G
C16_Literal(P, G) ==
    \/ contains(lower(P), lower(G))
    \/ contains(lower(G), lower(P))
    \/ lower(P) = lower(G)

\* C16: a record is in filtered_books if and only if some selected genre P
\* and some genre G of the record pass the literal case-insensitive test
\* (P in G, G in P, or equal); a record whose only genre is
\* "Science Fiction" is not matched by the preference "Sci-Fi".
C16_FilteredIffLiteralMatch ==
    Filtered =>
        /\ \A k \in 1..Len(all_books) :
              (\E f \in 1..Len(filtered_books) :
                    filtered_books[f].title = all_books[k].title)
              <=> (\E i \in 1..Len(selected_genres) :
                     \E G \in C16_RecordGenres(all_books[k]) :
                        C16_Literal(selected_genres[i], G))
        /\ \A f \in 1..Len(filtered_books) :
              \E k \in 1..Len(all_books) :
                  /\ filtered_books[f].title = all_books[k].title
                  /\ filtered_books[f].primary_genre = all_books[k].primary_genre
        /\ (\A i \in 1..Len(selected_genres) : selected_genres[i] = <<"S", "c", "i", "-", "F", "i">>) =>
              \A f \in 1..Len(filtered_books) :
                  C16_RecordGenres(filtered_books[f]) # {<<"S", "c", "i", "e", "n", "c", "e", " ", "F", "i", "c", "t", "i", "o", "n">>}

\* "Sci-Fi" and "fantasy" selected: The Hobbit is kept, Dune is not
C16_Witness ==
    /\ Filtered
    /\ selected_genres = << <<"S", "c", "i", "-", "F", "i">>, <<"f", "a", "n", "t", "a", "s", "y">> >>
    /\ Len(all_books) = 2
    /\ all_books[1].title = <<"D", "u", "n", "e">>
    /\ all_books[2].title = <<"T", "h", "e", " ", "H", "o", "b", "b", "i", "t">>
    /\ Len(filtered_books) = 1
    /\ filtered_books[1].title = <<"T", "h", "e", " ", "H", "o", "b", "b", "i", "t">>

\* C17: on every record of filtered_books, match_score is the number of
\* matching genres reported on the record divided by the number of
\* selected genres, also when a genre is selected twice; so it is above 0
\* and at most 1.
C17_ScoreIsMatchingOverSelected ==
    Filtered =>
        \A f \in 1..Len(filtered_books) :
            LET book == filtered_books[f] IN
            /\ book.match_score.num * Len(selected_genres)
                   = Cardinality(book.matching_genres) * book.match_score.den
            /\ book.match_score.num > 0
            /\ book.match_score.num <= book.match_score.den

\* the fields the filter loop writes
MatchFields == {"matching_genres", "match_score"}

\* C27: the preference matching and the statistics of
\* analyze_books_with_preferences leave every record of all_books with the
\* fields and values detect_books returned.
C27_RecordsStayAsDetected ==
    [][ pref_pc = "filter" => all_books' = all_books ]_vars

\* what does hold: the length, the order, and every field detect_books set
C27_DetectedFieldsKept ==
    [][ pref_pc = "filter" =>
          /\ Len(all_books') = Len(all_books)
          /\ \A k \in 1..Len(all_books) :
                /\ DOMAIN all_books'[k] \ MatchFields = DOMAIN all_books[k]
                /\ \A f \in DOMAIN all_books[k] : all_books'[k][f] = all_books[k][f]
                /\ (DOMAIN all_books'[k] = DOMAIN all_books[k])
                      <=> matching_genres(all_books[k], selected_genres) = <<>> ]_vars

---------------------------------------------------------------------------
(* The curated-catalog recommenders of the recommend API.  A catalog entry *)
(* keeps its title, genre and rating (in tenths: 4.5 is 45).               *)

\* the list get_curated_books returns
get_curated_books ==
    << [title |-> <<"T", "h", "e", " ", "S", "e", "v", "e", "n", " ", "H", "u", "s", "b", "a", "n", "d", "s", " ", "o", "f", " ", "E", "v", "e", "l", "y", "n", " ", "H", "u", "g", "o">>, genre |-> <<"F", "i", "c", "t", "i", "o", "n">>, rating |-> 45],
       [title |-> <<"T", "h", "e", " ", "M", "i", "d", "n", "i", "g", "h", "t", " ", "L", "i", "b", "r", "a", "r", "y">>, genre |-> <<"F", "i", "c", "t", "i", "o", "n">>, rating |-> 42],
       [title |-> <<"W", "h", "e", "r", "e", " ", "t", "h", "e", " ", "C", "r", "a", "w", "d", "a", "d", "s", " ", "S", "i", "n", "g">>, genre |-> <<"F", "i", "c", "t", "i", "o", "n">>, rating |-> 46],
       [title |-> <<"T", "h", "e", " ", "K", "i", "t", "e", " ", "R", "u", "n", "n", "e", "r">>, genre |-> <<"F", "i", "c", "t", "i", "o", "n">>, rating |-> 43],
       [title |-> <<"P", "r", "o", "j", "e", "c", "t", " ", "H", "a", "i", "l", " ", "M", "a", "r", "y">>, genre |-> <<"S", "c", "i", "e", "n", "c", "e", " ", "F", "i", "c", "t", "i", "o", "n">>, rating |-> 47],
       [title |-> <<"D", "u", "n", "e">>, genre |-> <<"S", "c", "i", "e", "n", "c", "e", " ", "F", "i", "c", "t", "i", "o", "n">>, rating |-> 43],
       [title |-> <<"T", "h", "e", " ", "M", "a", "r", "t", "i", "a", "n">>, genre |-> <<"S", "c", "i", "e", "n", "c", "e", " ", "F", "i", "c", "t", "i", "o", "n">>, rating |-> 44],
       [title |-> <<"F", "o", "u", "n", "d", "a", "t", "i", "o", "n">>, genre |-> <<"S", "c", "i", "e", "n", "c", "e", " ", "F", "i", "c", "t", "i", "o", "n">>, rating |-> 42],
       [title |-> <<"T", "h", "e", " ", "N", "a", "m", "e", " ", "o", "f", " ", "t", "h", "e", " ", "W", "i", "n", "d">>, genre |-> <<"F", "a", "n", "t", "a", "s", "y">>, rating |-> 45],
       [title |-> <<"M", "i", "s", "t", "b", "o", "r", "n", ":", " ", "T", "h", "e", " ", "F", "i", "n", "a", "l", " ", "E", "m", "p", "i", "r", "e">>, genre |-> <<"F", "a", "n", "t", "a", "s", "y">>, rating |-> 44],
       [title |-> <<"T", "h", "e", " ", "H", "o", "b", "b", "i", "t">>, genre |-> <<"F", "a", "n", "t", "a", "s", "y">>, rating |-> 43],
       [title |-> <<"T", "h", "e", " ", "S", "i", "l", "e", "n", "t", " ", "P", "a", "t", "i", "e", "n", "t">>, genre |-> <<"T", "h", "r", "i", "l", "l", "e", "r">>, rating |-> 43],
       [title |-> <<"G", "o", "n", "e", " ", "G", "i", "r", "l">>, genre |-> <<"T", "h", "r", "i", "l", "l", "e", "r">>, rating |-> 41],
       [title |-> <<"T", "h", "e", " ", "G", "i", "r", "l", " ", "w", "i", "t", "h", " ", "t", "h", "e", " ", "D", "r", "a", "g", "o", "n", " ", "T", "a", "t", "t", "o", "o">>, genre |-> <<"M", "y", "s", "t", "e", "r", "y">>, rating |-> 42],
       [title |-> <<"T", "h", "e", " ", "D", "a", " ", "V", "i", "n", "c", "i", " ", "C", "o", "d", "e">>, genre |-> <<"M", "y", "s", "t", "e", "r", "y">>, rating |-> 40],
       [title |-> <<"T", "h", "e", " ", "H", "a", "t", "i", "n", "g", " ", "G", "a", "m", "e">>, genre |-> <<"R", "o", "m", "a", "n", "c", "e">>, rating |-> 42],
       [title |-> <<"B", "e", "a", "c", "h", " ", "R", "e", "a", "d">>, genre |-> <<"R", "o", "m", "a", "n", "c", "e">>, rating |-> 41],
       [title |-> <<"T", "h", "e", " ", "K", "i", "s", "s", " ", "Q", "u", "o", "t", "i", "e", "n", "t">>, genre |-> <<"R", "o", "m", "a", "n", "c", "e">>, rating |-> 40],
       [title |-> <<"S", "a", "p", "i", "e", "n", "s">>, genre |-> <<"N", "o", "n", "-", "F", "i", "c", "t", "i", "o", "n">>, rating |-> 44],
       [title |-> <<"E", "d", "u", "c", "a", "t", "e", "d">>, genre |-> <<"B", "i", "o", "g", "r", "a", "p", "h", "y">>, rating |-> 45],
       [title |-> <<"T", "h", "i", "n", "k", "i", "n", "g", ",", " ", "F", "a", "s", "t", " ", "a", "n", "d", " ", "S", "l", "o", "w">>, genre |-> <<"B", "u", "s", "i", "n", "e", "s", "s">>, rating |-> 42],
       [title |-> <<"A", "t", "o", "m", "i", "c", " ", "H", "a", "b", "i", "t", "s">>, genre |-> <<"S", "e", "l", "f", "-", "H", "e", "l", "p">>, rating |-> 48],
       [title |-> <<"T", "h", "e", " ", "P", "o", "w", "e", "r", " ", "o", "f", " ", "N", "o", "w">>, genre |-> <<"S", "e", "l", "f", "-", "H", "e", "l", "p">>, rating |-> 42],
       [title |-> <<"C", "l", "e", "a", "n", " ", "C", "o", "d", "e">>, genre |-> <<"T", "e", "c", "h", "n", "o", "l", "o", "g", "y">>, rating |-> 44],
       [title |-> <<"T", "h", "e", " ", "P", "r", "a", "g", "m", "a", "t", "i", "c", " ", "P", "r", "o", "g", "r", "a", "m", "m", "e", "r">>, genre |-> <<"T", "e", "c", "h", "n", "o", "l", "o", "g", "y">>, rating |-> 43] >>

\* the list get_book_recommendations holds
sample_books ==
    << [title |-> <<"T", "h", "e", " ", "S", "e", "v", "e", "n", " ", "H", "u", "s", "b", "a", "n", "d", "s", " ", "o", "f", " ", "E", "v", "e", "l", "y", "n", " ", "H", "u", "g", "o">>, genre |-> <<"F", "i", "c", "t", "i", "o", "n">>, rating |-> 45],
       [title |-> <<"T", "h", "e", " ", "M", "i", "d", "n", "i", "g", "h", "t", " ", "L", "i", "b", "r", "a", "r", "y">>, genre |-> <<"F", "i", "c", "t", "i", "o", "n">>, rating |-> 42],
       [title |-> <<"W", "h", "e", "r", "e", " ", "t", "h", "e", " ", "C", "r", "a", "w", "d", "a", "d", "s", " ", "S", "i", "n", "g">>, genre |-> <<"F", "i", "c", "t", "i", "o", "n">>, rating |-> 46],
       [title |-> <<"P", "r", "o", "j", "e", "c", "t", " ", "H", "a", "i", "l", " ", "M", "a", "r", "y">>, genre |-> <<"S", "c", "i", "e", "n", "c", "e", " ", "F", "i", "c", "t", "i", "o", "n">>, rating |-> 47],
       [title |-> <<"D", "u", "n", "e">>, genre |-> <<"S", "c", "i", "e", "n", "c", "e", " ", "F", "i", "c", "t", "i", "o", "n">>, rating |-> 43],
       [title |-> <<"T", "h", "e", " ", "M", "a", "r", "t", "i", "a", "n">>, genre |-> <<"S", "c", "i", "e", "n", "c", "e", " ", "F", "i", "c", "t", "i", "o", "n">>, rating |-> 44],
       [title |-> <<"T", "h", "e", " ", "N", "a", "m", "e", " ", "o", "f", " ", "t", "h", "e", " ", "W", "i", "n", "d">>, genre |-> <<"F", "a", "n", "t", "a", "s", "y">>, rating |-> 45],
       [title |-> <<"M", "i", "s", "t", "b", "o", "r", "n", ":", " ", "T", "h", "e", " ", "F", "i", "n", "a", "l", " ", "E", "m", "p", "i", "r", "e">>, genre |-> <<"F", "a", "n", "t", "a", "s", "y">>, rating |-> 44],
       [title |-> <<"T", "h", "e", " ", "S", "i", "l", "e", "n", "t", " ", "P", "a", "t", "i", "e", "n", "t">>, genre |-> <<"T", "h", "r", "i", "l", "l", "e", "r">>, rating |-> 43],
       [title |-> <<"G", "o", "n", "e", " ", "G", "i", "r", "l">>, genre |-> <<"T", "h", "r", "i", "l", "l", "e", "r">>, rating |-> 41],
       [title |-> <<"T", "h", "e", " ", "G", "i", "r", "l", " ", "w", "i", "t", "h", " ", "t", "h", "e", " ", "D", "r", "a", "g", "o", "n", " ", "T", "a", "t", "t", "o", "o">>, genre |-> <<"M", "y", "s", "t", "e", "r", "y">>, rating |-> 42],
       [title |-> <<"T", "h", "e", " ", "H", "a", "t", "i", "n", "g", " ", "G", "a", "m", "e">>, genre |-> <<"R", "o", "m", "a", "n", "c", "e">>, rating |-> 42],
       [title |-> <<"B", "e", "a", "c", "h", " ", "R", "e", "a", "d">>, genre |-> <<"R", "o", "m", "a", "n", "c", "e">>, rating |-> 41],
       [title |-> <<"S", "a", "p", "i", "e", "n", "s">>, genre |-> <<"N", "o", "n", "-", "F", "i", "c", "t", "i", "o", "n">>, rating |-> 44],
       [title |-> <<"E", "d", "u", "c", "a", "t", "e", "d">>, genre |-> <<"B", "i", "o", "g", "r", "a", "p", "h", "y">>, rating |-> 45],
       [title |-> <<"A", "t", "o", "m", "i", "c", " ", "H", "a", "b", "i", "t", "s">>, genre |-> <<"S", "e", "l", "f", "-", "H", "e", "l", "p">>, rating |-> 48],
       [title |-> <<"T", "h", "e", " ", "P", "o", "w", "e", "r", " ", "o", "f", " ", "N", "o", "w">>, genre |-> <<"S", "e", "l", "f", "-", "H", "e", "l", "p">>, rating |-> 42],
       [title |-> <<"T", "h", "i", "n", "k", "i", "n", "g", ",", " ", "F", "a", "s", "t", " ", "a", "n", "d", " ", "S", "l", "o", "w">>, genre |-> <<"B", "u", "s", "i", "n", "e", "s", "s">>, rating |-> 42],
       [title |-> <<"T", "h", "e", " ", "L", "e", "a", "n", " ", "S", "t", "a", "r", "t", "u", "p">>, genre |-> <<"B", "u", "s", "i", "n", "e", "s", "s">>, rating |-> 41],
       [title |-> <<"C", "l", "e", "a", "n", " ", "C", "o", "d", "e">>, genre |-> <<"T", "e", "c", "h", "n", "o", "l", "o", "g", "y">>, rating |-> 44],
       [title |-> <<"T", "h", "e", " ", "P", "r", "a", "g", "m", "a", "t", "i", "c", " ", "P", "r", "o", "g", "r", "a", "m", "m", "e", "r">>, genre |-> <<"T", "e", "c", "h", "n", "o", "l", "o", "g", "y">>, rating |-> 43] >>

\* the members of a list
elements(l) == {l[i] : i \in 1..Len(l)}

\* sort(key=rating, reverse=True) is stable: an entry goes after every
\* entry whose rating is not less
RECURSIVE insert_by_rating(_, _)
insert_by_rating(sorted, book) ==
    IF sorted = <<>> THEN <<book>>
    ELSE IF Head(sorted).rating >= book.rating
         THEN <<Head(sorted)>> \o insert_by_rating(Tail(sorted), book)
         ELSE <<book>> \o sorted

RECURSIVE sort_by_rating(_)
sort_by_rating(books) ==
    IF books = <<>> THEN <<>>
    ELSE insert_by_rating(sort_by_rating(SubSeq(books, 1, Len(books) - 1)),
                          books[Len(books)])

\* the genres of the detected books, '' and 'Unknown' left out
detected_genres(detected) ==
    {Get(detected[i], "genre") : i \in 1..Len(detected)} \ {<<>>, <<"U", "n", "k", "n", "o", "w", "n">>}

\* get_book_recommendations(detected_books, preferred_genres, max_recommendations)
get_book_recommendations(detected, preferred, max_n) ==
    LET genres == detected_genres(detected)
        priority_books ==
            SelectSeq(sample_books,
                      LAMBDA book : book.genre \in genres /\ book.genre \in elements(preferred))
        secondary_books ==
            SelectSeq(sample_books,
                      LAMBDA book : ~(book.genre \in genres /\ book.genre \in elements(preferred))
                                    /\ book.genre \in elements(preferred))
        combined == sort_by_rating(priority_books) \o sort_by_rating(secondary_books)
        remaining_books ==
            SelectSeq(sample_books,
                      LAMBDA book : book \notin elements(combined) /\ book.genre \in genres)
        with_remaining ==
            IF Len(combined) < max_n
            THEN combined \o sort_by_rating(remaining_books)
            ELSE combined
        final_books ==
            SelectSeq(sample_books, LAMBDA book : book \notin elements(with_remaining))
        with_final ==
            IF Len(with_remaining) < max_n
            THEN with_remaining \o sort_by_rating(final_books)
            ELSE with_remaining
    IN  take(with_final, max_n)

\* {book.get('title', '').lower() for book in detected_books if book.get('title')}
detected_titles(detected) ==
    {lower(Get(detected[i], "title")) : i \in {k \in 1..Len(detected) : Get(detected[k], "title") # <<>>}}

\* the loop of get_fallback_recommendations over the first n catalog entries
RECURSIVE fallback_loop(_, _, _, _)
fallback_loop(n, detected, selected, max_n) ==
    IF n = 0 THEN <<>>
    ELSE LET found == fallback_loop(n - 1, detected, selected, max_n)
             book == get_curated_books[n]
         IN  IF /\ book.genre \in elements(selected)
                /\ lower(book.title) \notin detected_titles(detected)
                /\ Len(found) < max_n
             THEN Append(found, Put(book, "source", <<"F", "a", "l", "l", "b", "a", "c", "k", " ", "R", "e", "c", "o", "m", "m", "e", "n", "d", "a", "t", "i", "o", "n">>))
             ELSE found

\* get_fallback_recommendations(detected_books, selected_genres, max_recommendations)
get_fallback_recommendations(detected, selected, max_n) ==
    fallback_loop(Len(get_curated_books), detected, selected, max_n)

\* detected records as the recommend API receives them
DetectedForRecommend ==
    { [title |-> <<"d", "u", "n", "e">>, genre |-> <<"S", "c", "i", "e", "n", "c", "e", " ", "F", "i", "c", "t", "i", "o", "n">>],
      [title |-> <<"T", "h", "e", " ", "H", "o", "b", "b", "i", "t">>, genre |-> <<"F", "a", "n", "t", "a", "s", "y">>],
      [title |-> <<"E", "m", "m", "a">>, genre |-> <<"R", "o", "m", "a", "n", "c", "e">>],
      [title |-> <<>>, genre |-> <<"F", "i", "c", "t", "i", "o", "n">>],
      [title |-> <<"U", "n", "k", "n", "o", "w", "n", " ", "B", "o", "o", "k">>, genre |-> <<"U", "n", "k", "n", "o", "w", "n">>] }

PreferredGenres == { <<"F", "i", "c", "t", "i", "o", "n">>, <<"F", "a", "n", "t", "a", "s", "y">>, <<"S", "c", "i", "e", "n", "c", "e", " ", "F", "i", "c", "t", "i", "o", "n">>, <<"P", "o", "e", "t", "r", "y">> }

MaxRecommendations == {1, 3, 5, 30}

MaxDetected == 2

MaxPreferred == 2

InitRecommend ==
    /\ rec_detected \in lists_without_repeats(DetectedForRecommend, MaxDetected)
    /\ rec_preferred \in lists_up_to(PreferredGenres, MaxPreferred)
    /\ rec_max \in MaxRecommendations
    /\ recommendations = <<>>
    /\ fallback_recommendations = <<>>
    /\ rec_done = {}
    /\ IdleDetect
    /\ IdleMeta
    /\ IdleLimit
    /\ IdlePref
    /\ IdleApi

GetBookRecommendations ==
    /\ rec_max > 0
    /\ "get_book_recommendations" \notin rec_done
    /\ recommendations' = get_book_recommendations(rec_detected, rec_preferred, rec_max)
    /\ rec_done' = rec_done \cup {"get_book_recommendations"}
    /\ UNCHANGED <<rec_detected, rec_preferred, rec_max, fallback_recommendations,
                   detectVars, metaVars, limitVars, prefVars, apiVars>>

GetFallbackRecommendations ==
    /\ rec_max > 0
    /\ "get_fallback_recommendations" \notin rec_done
    /\ fallback_recommendations' =
          get_fallback_recommendations(rec_detected, rec_preferred, rec_max)
    /\ rec_done' = rec_done \cup {"get_fallback_recommendations"}
    /\ UNCHANGED <<rec_detected, rec_preferred, rec_max, recommendations,
                   detectVars, metaVars, limitVars, prefVars, apiVars>>

NextRecommend == GetBookRecommendations \/ GetFallbackRecommendations

SpecRecommend == InitRecommend /\ [][NextRecommend]_vars

---------------------------------------------------------------------------
(* Properties of the curated-catalog recommenders, under SpecRecommend     *)

\* the two results, once returned
CuratedResults ==
    {recommendations : f \in rec_done \cap {"get_book_recommendations"}}
    \cup {fallback_recommendations : f \in rec_done \cap {"get_fallback_recommendations"}}

\* the tier of a catalog entry: 1 detected and preferred, 2 preferred only,
\* 3 detected only, 4 neither
Tier(book) ==
    LET detected == book.genre \in detected_genres(rec_detected)
        preferred == book.genre \in elements(rec_preferred)
    IN  IF detected /\ preferred THEN 1
        ELSE IF preferred THEN 2
        ELSE IF detected THEN 3
        ELSE 4

\* C18: a curated-catalog result is tier 1, then tier 2, then (only when
\* those leave it under the requested count) tier 3: no entry of neither
\* set is returned, no entry precedes one of a better tier, and tier 3
\* appears only when tiers 1 and 2 hold fewer than the requested count.
C18_TiersInOrder ==
    \A result \in CuratedResults :
        /\ \A i \in 1..Len(result) : Tier(result[i]) # 4
        /\ \A i, j \in 1..Len(result) : i < j => Tier(result[i]) <= Tier(result[j])
        /\ (\E i \in 1..Len(result) : Tier(result[i]) = 3) =>
              Cardinality({i \in 1..Len(result) : Tier(result[i]) \in {1, 2}}) < rec_max

\* C19: within each tier of a curated-catalog result the ratings do not
\* increase, whatever the preferred genres.
C19_RatingOrderWithinTier ==
    \A result \in CuratedResults :
        \A i, j \in 1..Len(result) :
            (i < j /\ Tier(result[i]) = Tier(result[j])) =>
                result[i].rating >= result[j].rating

\* C20: a curated-catalog result has at most the requested number of
\* entries and none whose title is, case-insensitively, a detected title.
C20_BoundedWithoutDetectedTitles ==
    \A result \in CuratedResults :
        /\ Len(result) <= rec_max
        /\ \A i \in 1..Len(result) :
              \A k \in 1..Len(rec_detected) :
                  lower(result[i].title) # lower(rec_detected[k].title)

---------------------------------------------------------------------------
(* get_openai_recommendations (src/backend/api/recommend.py)               *)
(*                                                                         *)
(* The generator's outcome is one of                                       *)
(*   unavailable    openai_client is None                                  *)
(*   api_error      chat.completions.create raised                         *)
(*   none_content   the message has no content                             *)
(*   not_json       json.loads raises JSONDecodeError on the cleaned text  *)
(*   json           json.loads returns the value `value`                   *)
(* A JSON value is a tagged record, each type with a field of its own;     *)
(* its strings are sequences of characters.                                *)

JsonNull == [t |-> "null"]

JsonNumber(n) == [t |-> "number", n |-> n]

JsonString(s) == [t |-> "string", s |-> s]

JsonArray(items) == [t |-> "array", items |-> items]

JsonObject(members) == [t |-> "object", members |-> members]

\* the keys of a dict, in a list
RECURSIVE keys_of(_)
keys_of(keys) ==
    IF keys = {} THEN <<>>
    ELSE LET k == CHOOSE x \in keys : TRUE
         IN  <<JsonString(k)>> \o keys_of(keys \ {k})

\* what `for rec in recommendations` goes through
iterate(value) ==
    CASE value.t = "array"  -> Returned(value.items)
      [] value.t = "object" -> Returned(keys_of(DOMAIN value.members))
      [] value.t = "string" ->
            Returned([i \in 1..Len(value.s) |-> JsonString(<<value.s[i]>>)])
      [] OTHER            -> Raised("TypeError")

\* isinstance(rec, dict) and all(key in rec for key in ['title', 'author', 'genre'])
has_fields(rec) ==
    /\ rec.t = "object"
    /\ {"title", "author", "genre"} \subseteq DOMAIN rec.members

\* the validation loop
RECURSIVE validate_recommendations(_, _)
validate_recommendations(recs, selected) ==
    IF recs = <<>> THEN <<>>
    ELSE LET rest == validate_recommendations(Tail(recs), selected)
             rec  == Head(recs)
         IN  IF has_fields(rec) /\ rec.members.genre \in elements(selected)
             THEN <<rec.members>> \o rest
             ELSE rest

\* get_openai_recommendations(detected_books, selected_genres, max_recommendations)
get_openai_recommendations(outcome, detected, selected, max_n) ==
    IF outcome.kind = "unavailable"
    THEN Returned(get_fallback_recommendations(detected, selected, max_n))
    ELSE IF outcome.kind \in {"api_error", "none_content", "not_json"}
    THEN Returned(get_fallback_recommendations(detected, selected, max_n))
    ELSE LET recs == iterate(outcome.value)
         IN  IF recs.raised
             THEN Returned(get_fallback_recommendations(detected, selected, max_n))
             ELSE Returned(take(validate_recommendations(recs.value, selected), max_n))

\* entries a generator may return
GeneratedEntries ==
    { JsonObject([title |-> <<"M", "i", "s", "t", "b", "o", "r", "n">>, author |-> <<"B", "r", "a", "n", "d", "o", "n", " ", "S", "a", "n", "d", "e", "r", "s", "o", "n">>, genre |-> <<"F", "a", "n", "t", "a", "s", "y">>]),
      JsonObject([title |-> <<"P", "i", "r", "a", "n", "e", "s", "i">>, author |-> <<"S", "u", "s", "a", "n", "n", "a", " ", "C", "l", "a", "r", "k", "e">>, genre |-> <<"F", "i", "c", "t", "i", "o", "n">>]),
      JsonObject([title |-> <<"I", "t">>, author |-> <<"S", "t", "e", "p", "h", "e", "n", " ", "K", "i", "n", "g">>, genre |-> <<"H", "o", "r", "r", "o", "r">>]),
      JsonObject([title |-> <<"U", "n", "t", "i", "t", "l", "e", "d">>, genre |-> <<"F", "a", "n", "t", "a", "s", "y">>]),
      JsonString(<<"D", "u", "n", "e">>) }

GeneratedLists ==
    {<<>>} \cup {<<a>> : a \in GeneratedEntries}
           \cup {<<a, b>> : a \in GeneratedEntries, b \in GeneratedEntries}

GeneratorOutcomes ==
    { [kind |-> "unavailable"], [kind |-> "api_error"], [kind |-> "none_content"],
      [kind |-> "not_json"],
      [kind |-> "json", value |-> JsonNull],
      [kind |-> "json", value |-> JsonNumber(5)],
      [kind |-> "json", value |-> JsonString(<<"n", "o", "n", "e">>)],
      [kind |-> "json", value |-> JsonObject([recommendations |-> JsonArray(<<>>)])] }
    \cup { [kind |-> "json", value |-> JsonArray(l)] : l \in GeneratedLists }

GenerateDetected ==
    { <<>>,
      <<[title |-> <<"d", "u", "n", "e">>, genre |-> <<"S", "c", "i", "e", "n", "c", "e", " ", "F", "i", "c", "t", "i", "o", "n">>]>>,
      <<[title |-> <<"T", "h", "e", " ", "H", "o", "b", "b", "i", "t">>, genre |-> <<"F", "a", "n", "t", "a", "s", "y">>]>> }

GenerateSelected == { <<>>, << <<"F", "a", "n", "t", "a", "s", "y">> >>, << <<"F", "i", "c", "t", "i", "o", "n">>, <<"S", "c", "i", "e", "n", "c", "e", " ", "F", "i", "c", "t", "i", "o", "n">> >> }

GenerateMax == {1, 5}

InitGenerate ==
    /\ generation \in GeneratorOutcomes
    /\ rec_detected \in GenerateDetected
    /\ rec_preferred \in GenerateSelected
    /\ rec_max \in GenerateMax
    /\ recommendations = <<>>
    /\ fallback_recommendations = <<>>
    /\ rec_done = {}
    /\ openai_recommendations = <<>>
    /\ gen_pc = "call"
    /\ IdleDetect
    /\ IdleMeta
    /\ IdleLimit
    /\ IdlePref
    /\ IdleStore

GetOpenAIRecommendations ==
    /\ gen_pc = "call"
    /\ openai_recommendations' =
          get_openai_recommendations(generation, rec_detected, rec_preferred, rec_max)
    /\ gen_pc' = "done"
    /\ UNCHANGED <<generation, recVars, detectVars, metaVars, limitVars, prefVars,
                   storeVars>>

NextGenerate == GetOpenAIRecommendations

SpecGenerate == InitGenerate /\ [][NextGenerate]_vars

---------------------------------------------------------------------------
(* Properties of get_openai_recommendations, under SpecGenerate            *)

\* the entries of the generator's JSON list, when it returned one
GeneratedList ==
    IF generation.kind = "json" /\ generation.value.t = "array"
    THEN generation.value.items ELSE <<>>

\* the generator gave a JSON list of entries that all have the three fields
WellShaped ==
    /\ generation.kind = "json"
    /\ generation.value.t = "array"
    /\ \A i \in 1..Len(GeneratedList) : has_fields(GeneratedList[i])

\* it is unavailable, threw, gave no JSON, gave a malformed shape, or gave
\* an entry whose genre the user did not select
GenerationFailed ==
    \/ ~WellShaped
    \/ \E i \in 1..Len(GeneratedList) :
          GeneratedList[i].members.genre \notin elements(rec_preferred)

\* C21: whenever the generator is unavailable, throws, returns non-JSON, a
\* malformed shape or entries of genres the user did not select,
\* get_openai_recommendations returns (without raising) the curated
\* fallback result for the same inputs.
C21_FailureGivesFallback ==
    (gen_pc = "done" /\ GenerationFailed) =>
        /\ ~openai_recommendations.raised
        /\ openai_recommendations.value =
              get_fallback_recommendations(rec_detected, rec_preferred, rec_max)

---------------------------------------------------------------------------
(* The analyze API (src/backend/api/analyze.py) and the upload of an image *)
(* (src/backend/api/upload.py) over the two directories static/uploads and *)
(* static/results.  A handler is `async def` and its body never awaits     *)
(* between its first look at a directory and its last write, so on the one *)
(* event loop of src/run.py a request is one step.  A file identifier is   *)
(* the n-th value uuid4 gave out.  An image stands for what the detector   *)
(* finds in it: detect_books returns one record per accepted region and    *)
(* asks the vision model once for each (AnalyzeBox).                       *)

JsonBoolean(b) == [t |-> "boolean", b |-> b]

\* json.dump of one record of detect_books
dump_book(book) ==
    JsonObject([k \in DOMAIN book |->
                  CASE k = "isValid"     -> JsonBoolean(book[k])
                    [] k = "book_number" -> JsonNumber(book[k])
                    [] OTHER             -> JsonString(book[k])])

\* json.dump(books, f): the text of the file, as the JSON value it spells
json_dump(books) == JsonArray([i \in 1..Len(books) |-> dump_book(books[i])])

\* the Python value of a JSON scalar
load_scalar(value) ==
    CASE value.t = "string"  -> value.s
      [] value.t = "number"  -> value.n
      [] value.t = "boolean" -> value.b

\* json.load(f) of a file json_dump wrote
json_load(text) ==
    [i \in 1..Len(text.items) |->
        [k \in DOMAIN text.items[i].members |->
            load_scalar(text.items[i].members[k])]]

\* no file of that name in the directory
NoFile == [t |-> "absent"]

exists(files, file_id) == files[file_id].t # "absent"

\* records as process_image returns them (the fields the API reads)
TheHobbit ==
    [ book_number |-> 1, title |-> <<"T", "h", "e", " ", "H", "o", "b", "b", "i", "t">>, genre |-> <<"F", "a", "n", "t", "a", "s", "y">>,
      primary_genre |-> <<"F", "a", "n", "t", "a", "s", "y">>, secondary_genre |-> <<"A", "d", "v", "e", "n", "t", "u", "r", "e">>,
      tertiary_genre |-> <<>>, isValid |-> TRUE ]

Untitled ==
    [ book_number |-> 2, title |-> <<>>, genre |-> <<"F", "i", "c", "t", "i", "o", "n">>,
      primary_genre |-> <<>>, secondary_genre |-> <<>>, tertiary_genre |-> <<>>,
      isValid |-> FALSE ]

\* the images a client sends: one cv2 cannot decode, one without an
\* accepted region, one with a region, one with two
Images ==
    << [readable |-> FALSE, books |-> <<>>],
       [readable |-> TRUE,  books |-> <<>>],
       [readable |-> TRUE,  books |-> <<TheHobbit>>],
       [readable |-> TRUE,  books |-> <<TheHobbit, Untitled>>] >>

\* one call of detect_books on the image: its records, and the extraction
\* calls it made
detect_books(image) ==
    [books |-> image.books, extraction_calls |-> Len(image.books)]

\* process_image: cv2.imread, then detect_books
process_image(image) ==
    IF ~image.readable
    THEN Raised(<<"F", "a", "i", "l", "e", "d", " ", "t", "o", " ", "l", "o", "a", "d", " ", "i", "m", "a", "g", "e">>)
    ELSE Returned(detect_books(image))

\* the bound of the identifiers uuid4 gives out
MaxUuid == 2

\* the bound of the requests of a run
MaxCalls == 4

FileIds == 1..MaxUuid

GenreLists == { <<>>, << <<"F", "a", "n", "t", "a", "s", "y">> >>, << <<"F", "i", "c", "t", "i", "o", "n">>, <<"R", "o", "m", "a", "n", "c", "e">> >> }

RECURSIVE select_genre(_, _)
\* the loop of filter_books_by_genre
select_genre(books, genres) ==
    IF books = <<>> THEN <<>>
    ELSE IF \E i \in 1..Len(genres) : genres[i] = Head(books).genre
         THEN <<Head(books)>> \o select_genre(Tail(books), genres)
         ELSE select_genre(Tail(books), genres)

RECURSIVE count_valid(_)
\* sum(1 for book in books if book.get('isValid', False))
count_valid(books) ==
    IF books = <<>> THEN 0
    ELSE (IF Head(books).isValid THEN 1 ELSE 0) + count_valid(Tail(books))

\* what a handler answers: the status, the identifier and the records of the
\* body, and the extraction calls the request made
Answer(endpoint, file_id, status, books, calls) ==
    [endpoint |-> endpoint, file_id |-> file_id, status |-> status,
     books |-> books, total |-> Len(books), valid |-> count_valid(books),
     extraction_calls |-> calls]

NoAnswer == Answer("none", 0, 0, <<>>, 0)

\* get_analysis_results without the test that the file exists: open() raises
get_analysis_results_unguarded(files, file_id) ==
    IF ~exists(files, file_id)
    THEN Answer("get_analysis_results", file_id, 500, <<>>, 0)
    ELSE Answer("get_analysis_results", file_id, 200, json_load(files[file_id]), 0)

get_analysis_results(files, file_id) ==
    IF ~exists(files, file_id)
    THEN Answer("get_analysis_results", file_id, 404, <<>>, 0)
    ELSE Answer("get_analysis_results", file_id, 200, json_load(files[file_id]), 0)

filter_books_by_genre(files, file_id, genres) ==
    IF ~exists(files, file_id)
    THEN Answer("filter_books_by_genre", file_id, 404, <<>>, 0)
    ELSE Answer("filter_books_by_genre", file_id, 200,
                select_genre(json_load(files[file_id]), genres), 0)

\* the body holds counts only: total_books, valid_books, ...
get_book_statistics(files, file_id) ==
    IF ~exists(files, file_id)
    THEN Answer("get_book_statistics", file_id, 404, <<>>, 0)
    ELSE [Answer("get_book_statistics", file_id, 200, <<>>, 0) EXCEPT
              !.total = Len(json_load(files[file_id])),
              !.valid = count_valid(json_load(files[file_id]))]

InitStore ==
    /\ detector_ready \in BOOLEAN
    /\ uploads = [i \in FileIds |-> 0]
    /\ analysis_files = [i \in FileIds |-> NoFile]
    /\ preferences_files = [i \in FileIds |-> NoFile]
    /\ annotated_files = {}
    /\ writes = [analysis    |-> [i \in FileIds |-> 0],
                 preferences |-> [i \in FileIds |-> 0],
                 annotated   |-> [i \in FileIds |-> 0]]
    /\ next_uuid = 1
    /\ request_count = 0
    /\ last_answer = NoAnswer
    /\ IdleDetect
    /\ IdleMeta
    /\ IdleLimit
    /\ IdlePref
    /\ IdleRec
    /\ IdleGen

\* a request arrives and is answered
Request == request_count < MaxCalls /\ request_count' = request_count + 1

otherVars == <<detectVars, metaVars, limitVars, prefVars, recVars, genVars>>

\* upload_image: a file with an allowed extension and size is stored under a
\* new identifier, any other is refused
UploadImage ==
    /\ Request
    /\ \E accepted \in BOOLEAN, image \in 1..Len(Images) :
          IF ~accepted
          THEN /\ last_answer' = Answer("upload_image", 0, 400, <<>>, 0)
               /\ UNCHANGED <<uploads, next_uuid>>
          ELSE /\ next_uuid <= MaxUuid
               /\ uploads' = [uploads EXCEPT ![next_uuid] = image]
               /\ next_uuid' = next_uuid + 1
               /\ last_answer' = Answer("upload_image", next_uuid, 200, <<>>, 0)
    /\ UNCHANGED <<detector_ready, analysis_files, preferences_files,
                   annotated_files, writes, otherVars>>

\* analyze_books: the image comes with the request; detect_books runs on it,
\* and runs once more inside get_annotations_data; the image and its
\* annotated copy are stored under a new identifier
AnalyzeBooks ==
    /\ Request
    /\ \E is_image \in BOOLEAN, image \in 1..Len(Images) :
          IF ~detector_ready
          THEN /\ last_answer' = Answer("analyze_books", 0, 500, <<>>, 0)
               /\ UNCHANGED <<uploads, annotated_files, writes, next_uuid>>
          ELSE IF ~is_image \/ ~Images[image].readable
          THEN /\ last_answer' = Answer("analyze_books", 0, 400, <<>>, 0)
               /\ UNCHANGED <<uploads, annotated_files, writes, next_uuid>>
          ELSE LET results     == detect_books(Images[image])
                   annotations == detect_books(Images[image])
               IN  /\ next_uuid <= MaxUuid
                   /\ annotated_files' = annotated_files \cup {next_uuid}
                   /\ writes' = [writes EXCEPT !.annotated[next_uuid] = @ + 1]
                   /\ uploads' = [uploads EXCEPT ![next_uuid] = image]
                   /\ next_uuid' = next_uuid + 1
                   /\ last_answer' =
                         Answer("analyze_books", next_uuid, 200, results.books,
                                results.extraction_calls
                                    + annotations.extraction_calls)
    /\ UNCHANGED <<detector_ready, analysis_files, preferences_files, otherVars>>

\* analyze_books_by_id: the stored image is processed and the records are
\* written to {file_id}_analysis.json
AnalyzeBooksById ==
    /\ Request
    /\ \E file_id \in FileIds :
          IF ~detector_ready
          THEN /\ last_answer' = Answer("analyze_books_by_id", file_id, 500, <<>>, 0)
               /\ UNCHANGED <<analysis_files, writes>>
          ELSE IF uploads[file_id] = 0
          THEN /\ last_answer' = Answer("analyze_books_by_id", file_id, 404, <<>>, 0)
               /\ UNCHANGED <<analysis_files, writes>>
          ELSE LET r == process_image(Images[uploads[file_id]]) IN
               IF r.raised
               THEN /\ last_answer' =
                          Answer("analyze_books_by_id", file_id, 500, <<>>, 0)
                    /\ UNCHANGED <<analysis_files, writes>>
               ELSE /\ analysis_files' =
                          [analysis_files EXCEPT ![file_id] = json_dump(r.value.books)]
                    /\ writes' = [writes EXCEPT !.analysis[file_id] = @ + 1]
                    /\ last_answer' =
                          Answer("analyze_books_by_id", file_id, 200, r.value.books,
                                 r.value.extraction_calls)
    /\ UNCHANGED <<detector_ready, uploads, preferences_files, annotated_files,
                   next_uuid, otherVars>>

\* analyze_books_with_preferences: the stored image is processed; with no
\* record the answer is given at once; else the records are matched and
\* written, with the matching ones, to {file_id}_preferences_analysis.json
AnalyzeBooksWithPreferences ==
    /\ Request
    /\ \E file_id \in FileIds, selected \in GenreLists :
          IF ~detector_ready
          THEN /\ last_answer' =
                     Answer("analyze_books_with_preferences", file_id, 500, <<>>, 0)
               /\ UNCHANGED <<preferences_files, writes>>
          ELSE IF uploads[file_id] = 0
          THEN /\ last_answer' =
                     Answer("analyze_books_with_preferences", file_id, 404, <<>>, 0)
               /\ UNCHANGED <<preferences_files, writes>>
          ELSE LET r == process_image(Images[uploads[file_id]]) IN
               IF r.raised
               THEN /\ last_answer' =
                          Answer("analyze_books_with_preferences", file_id, 500, <<>>, 0)
                    /\ UNCHANGED <<preferences_files, writes>>
               ELSE IF r.value.books = <<>>
               THEN /\ last_answer' =
                          Answer("analyze_books_with_preferences", file_id, 200, <<>>, 0)
                    /\ UNCHANGED <<preferences_files, writes>>
               ELSE LET marked == mark_matching(r.value.books, selected)
                        kept   == sort_by_score(filter_books(r.value.books, selected))
                    IN  /\ preferences_files' =
                              [preferences_files EXCEPT ![file_id] =
                                  [t |-> "results_data", all_books |-> marked,
                                   filtered_books |-> kept,
                                   selected_genres |-> selected]]
                        /\ writes' = [writes EXCEPT !.preferences[file_id] = @ + 1]
                        /\ last_answer' =
                              Answer("analyze_books_with_preferences", file_id, 200,
                                     marked, r.value.extraction_calls)
    /\ UNCHANGED <<detector_ready, uploads, analysis_files, annotated_files,
                   next_uuid, otherVars>>

GetAnalysisResults ==
    /\ Request
    /\ \E file_id \in FileIds :
          last_answer' = get_analysis_results(analysis_files, file_id)
    /\ UNCHANGED <<detector_ready, uploads, analysis_files, preferences_files,
                   annotated_files, writes, next_uuid, otherVars>>

FilterBooksByGenre ==
    /\ Request
    /\ \E file_id \in FileIds, genres \in GenreLists :
          last_answer' = filter_books_by_genre(analysis_files, file_id, genres)
    /\ UNCHANGED <<detector_ready, uploads, analysis_files, preferences_files,
                   annotated_files, writes, next_uuid, otherVars>>

GetBookStatistics ==
    /\ Request
    /\ \E file_id \in FileIds :
          last_answer' = get_book_statistics(analysis_files, file_id)
    /\ UNCHANGED <<detector_ready, uploads, analysis_files, preferences_files,
                   annotated_files, writes, next_uuid, otherVars>>

\* delete_analysis: the file is unlinked if it is there
DeleteAnalysis ==
    /\ Request
    /\ \E file_id \in FileIds :
          /\ analysis_files' = [analysis_files EXCEPT ![file_id] = NoFile]
          /\ last_answer' = Answer("delete_analysis", file_id, 200, <<>>, 0)
    /\ UNCHANGED <<detector_ready, uploads, preferences_files, annotated_files,
                   writes, next_uuid, otherVars>>

NextStore ==
    \/ UploadImage
    \/ AnalyzeBooks
    \/ AnalyzeBooksById
    \/ AnalyzeBooksWithPreferences
    \/ GetAnalysisResults
    \/ FilterBooksByGenre
    \/ GetBookStatistics
    \/ DeleteAnalysis

SpecStore == InitStore /\ [][NextStore]_vars

---------------------------------------------------------------------------
(* Properties of the analyze API, under SpecStore                          *)

\* the operations that read {file_id}_analysis.json
C24_Reads == {"get_analysis_results", "filter_books_by_genre", "get_book_statistics"}

\* C24: in any sequence of analyze-by-id, get, filter, statistics and delete
\* requests, a get, filter or statistics request for an identifier without
\* a stored result answers 404 and not 500; a delete answers 200 whether
\* the result is there or not and leaves no result under the identifier
\* and every other result alone; and a result only appears under an
\* identifier by a successful analyze-by-id of it, so after a delete a get
\* answers 404 until then.
C24_NotFoundTolerated ==
    [][ /\ ( /\ last_answer'.endpoint \in C24_Reads
             /\ ~exists(analysis_files, last_answer'.file_id) ) =>
                /\ last_answer'.status = 404
                /\ analysis_files' = analysis_files
        /\ last_answer'.endpoint = "delete_analysis" =>
                /\ last_answer'.status = 200
                /\ ~exists(analysis_files', last_answer'.file_id)
                /\ \A i \in FileIds \ {last_answer'.file_id} :
                       analysis_files'[i] = analysis_files[i]
        /\ \A i \in FileIds :
              (~exists(analysis_files, i) /\ exists(analysis_files', i)) =>
                /\ last_answer'.endpoint = "analyze_books_by_id"
                /\ last_answer'.file_id = i
                /\ last_answer'.status = 200 ]_vars

\* upload, analyze-by-id, delete, and then a get that is answered 404
C24_Witness ==
    /\ last_answer.endpoint = "get_analysis_results"
    /\ last_answer.status = 404
    /\ last_answer.file_id = 1
    /\ writes.analysis[1] = 1
    /\ uploads[1] = 3
    /\ request_count = 4

\* the three kinds of result file
ResultKinds == {"analysis", "preferences", "annotated"}

\* C25: a result file is named after an identifier of the request that
\* writes it, so no result file is written by two analysis requests, two
\* analyze-by-id or analyze-with-preferences requests for the same file_id
\* included.
C25_OneWriterPerResultFile ==
    \A kind \in ResultKinds : \A i \in FileIds : writes[kind][i] <= 1

\* what does hold: the file analyze_books writes, named after the
\* identifier the request itself drew, has one writer
C25_OneWriterPerAnnotatedFile ==
    \A i \in FileIds : writes.annotated[i] <= 1

\* the answers of the three analyses that succeeded
C30_Analyses ==
    {"analyze_books", "analyze_books_by_id", "analyze_books_with_preferences"}

Analysed(endpoint) ==
    /\ last_answer.endpoint = endpoint
    /\ last_answer.status = 200

\* C29: the extraction calls one analyze_books request makes are as many
\* as the records of its answer.
C29_OneExtractionPerRecord ==
    Analysed("analyze_books") =>
        last_answer.extraction_calls = Len(last_answer.books)

\* what does hold: analyze_books makes two calls for each record, and the
\* two analyses of a stored image make one
C29_TwoExtractionsPerRecord ==
    /\ Analysed("analyze_books") =>
          last_answer.extraction_calls = 2 * Len(last_answer.books)
    /\ (Analysed("analyze_books_by_id") \/ Analysed("analyze_books_with_preferences")) =>
          last_answer.extraction_calls = Len(last_answer.books)

\* a get of the identifier finds the result and answers the same records
C30_Retrievable ==
    LET got == get_analysis_results(analysis_files, last_answer.file_id)
    IN  /\ got.status = 200
        /\ got.books = last_answer.books

\* C30: when an analysis (analyze_books, analyze_books_by_id,
\* analyze_books_with_preferences) has succeeded and answered an identifier,
\* get_analysis_results of that identifier finds the stored result and
\* answers the records the analysis answered.
C30_AnalysisIsRetrievable ==
    \A endpoint \in C30_Analyses : Analysed(endpoint) => C30_Retrievable

\* what does hold: the same, for analyze_books_by_id alone
C30_ByIdIsRetrievable ==
    Analysed("analyze_books_by_id") => C30_Retrievable

\* the count the analyze API's detect_books rests on, under Spec: one
\* detect_books makes one extraction call for each record it returns
C29_OneCallPerRecordInDetectBooks ==
    pc = "done" => vision_calls = Len(ret_books)

====
